---------------------------- MODULE Spec2Model ----------------------------
(***************************************************************************)
(* A model of md-tools' reference/footnote converters (mdref, mdinline,    *)
(* mdsidenote, mdfootnote) and of the shared range-exclusion helper.       *)
(*                                                                         *)
(* Documents are sequences of one-character strings ("bytes").  An         *)
(* offset is a 0-based byte offset as in the Go source; a span is the      *)
(* half-open [start, end).  A multi-byte atom whose inner bytes no scanner *)
(* of the program looks at (a word, a URL, an HTML tag) is one symbol.     *)
(***************************************************************************)
EXTENDS Integers, Sequences, FiniteSets, TLC

VARIABLES
    \* markdown.ExcludeRanges, run on its own (specification SpecEx)
    exContent, exStart, exRanges, exI, exPos, exResult, exPc,
    \* a converter's transform (specification Spec: mdref)
    tool,       \* the converter that runs; "none" when no converter runs
    source,     \* the document given to transform
    pc,         \* "start", "loop", "done", "panic"; "idle" when no converter runs
    pass,       \* 1: transform(x); 2: transform(transform(x))
    firstOut,   \* the result of pass 1, during pass 2
    links,      \* the sorted occurrence list
    li,         \* the loop's position in links (1-based)
    lastEnd, result, urlToRef, refs,    \* the loop's locals
    nums,       \* the number given to each occurrence processed so far
    copied,     \* the source offsets copied to result so far
    \* mdsidenote's transform (specification SpecSide): its locals
    fnRefs,     \* refs, the sorted footnote references
    defs, sidenoteNum, linkDefs, refsToRemove, allExcludeRanges,
    \* cli.Run (specification SpecCli)
    writeInPlace,   \* the -w flag
    args,           \* the file arguments
    files,          \* the file system: path -> [exists, writable, data]
    files0,         \* the file system when Run was called
    stdin, stdout,
    cliI,           \* the position of 'for _, path := range args' (1-based)
    readLog,        \* the paths read so far, in order
    writeLog,       \* the os.WriteFile calls so far: [path, old, new, ok]
    cliErr,         \* the error Run returned, NoError if none
    cliPc,          \* "start", "files", "returned", "panic"; "idle" when Run is not run
    \* mdwrap's wrapParagraph and wrapBlockquote (specification SpecWrap)
    wrapKind,       \* "para" or "quote"; "none" when mdwrap is not run
    wrapLines,      \* the lines transform collected for the paragraph or blockquote
    wrapWidth,      \* *wrapWidth, the value of -c
    wrapOut,        \* the lines returned
    wrapPc          \* "start", "done"; "idle" when mdwrap is not run

exVars == <<exContent, exStart, exRanges, exI, exPos, exResult, exPc>>

loopVars == <<lastEnd, result, urlToRef, refs, nums, copied>>

sideVars == <<fnRefs, defs, sidenoteNum, linkDefs, refsToRemove, allExcludeRanges>>

convVars == <<tool, source, pc, pass, firstOut, links, li, loopVars, sideVars>>

cliVars == <<writeInPlace, args, files, files0, stdin, stdout, cliI, readLog,
             writeLog, cliErr, cliPc>>

wrapVars == <<wrapKind, wrapLines, wrapWidth, wrapOut, wrapPc>>

vars == <<exVars, convVars, cliVars, wrapVars>>

----------------------------------------------------------------------------
(* Go slices and strings over 0-based offsets *)

\* s[lo:hi]
Slice(s, lo, hi) == SubSeq(s, lo + 1, hi)

\* s[i]
At(s, i) == s[i + 1]

Min(S) == CHOOSE x \in S : \A y \in S : x <= y

Max(S) == CHOOSE x \in S : \A y \in S : x >= y

\* the ascending sequence of the integers lo .. hi-1
Offsets(lo, hi) == [k \in 1..(IF hi > lo THEN hi - lo ELSE 0) |-> lo + k - 1]

\* the elements of a finite set of integers, ascending
RECURSIVE AscSeq(_)
AscSeq(S) == IF S = {} THEN <<>> ELSE <<Min(S)>> \o AscSeq(S \ {Min(S)})

----------------------------------------------------------------------------
(* internal/markdown/ranges.go *)

\* type ByteRange struct { Start, End int }
ByteRange(s, e) == [Start |-> s, End |-> e]

\* (a slip: the cursor is left at the start of the range, not moved past it)
ExcludeStepKeepsRange(content, contentStart, r, acc) ==
    LET relStart0 == r.Start - contentStart
        relStart == IF relStart0 < 0 THEN 0 ELSE relStart0
    IN  IF r.End <= contentStart \/ r.Start >= contentStart + Len(content)
        THEN acc
        ELSE [pos |-> relStart,
              result |-> IF relStart > acc.pos
                         THEN acc.result \o Slice(content, acc.pos, relStart)
                         ELSE acc.result]

\* One iteration of ExcludeRanges' loop over range r, from the accumulator
\* acc = [pos, result]; the body of 'for _, r := range ranges'.
ExcludeStep(content, contentStart, r, acc) ==
    LET contentEnd == contentStart + Len(content)
        relStart0 == r.Start - contentStart
        relEnd0 == r.End - contentStart
    IN  IF r.End <= contentStart \/ r.Start >= contentEnd
        THEN acc
        ELSE LET relStart == IF relStart0 < 0 THEN 0 ELSE relStart0
                 relEnd == IF relEnd0 > Len(content) THEN Len(content) ELSE relEnd0
             IN  [pos |-> relEnd,
                  result |-> IF relStart > acc.pos
                             THEN acc.result \o Slice(content, acc.pos, relStart)
                             ELSE acc.result]

\* "Write remaining content"
ExcludeFinish(content, acc) ==
    IF acc.pos < Len(content)
    THEN acc.result \o Slice(content, acc.pos, Len(content))
    ELSE acc.result

RECURSIVE ExcludeLoop(_, _, _, _, _)
ExcludeLoop(content, contentStart, ranges, i, acc) ==
    IF i > Len(ranges) THEN acc
    ELSE ExcludeLoop(content, contentStart, ranges, i + 1,
                     ExcludeStep(content, contentStart, ranges[i], acc))

\* func ExcludeRanges(content string, contentStart int, ranges []ByteRange) string
ExcludeRanges(content, contentStart, ranges) ==
    ExcludeFinish(content,
        ExcludeLoop(content, contentStart, ranges, 1, [pos |-> 0, result |-> <<>>]))

----------------------------------------------------------------------------
(* Bytes and strings helpers (package strings / bytes) *)

NL == "\n"
TAB == "\t"
BSL == "\\"
QUO == "\""

\* the first offset i in [from, to) with s[i] \in chars, or -1
IndexAny(s, chars, from, to) ==
    LET S == {i \in from..(to - 1) : At(s, i) \in chars}
    IN  IF S = {} THEN -1 ELSE Min(S)

\* strings.TrimRight(s, "\n")
TrimRightNL(s) ==
    LET S == {i \in 1..Len(s) : s[i] # NL}
    IN  IF S = {} THEN <<>> ELSE SubSeq(s, 1, Max(S))

\* bytes.TrimSpace(line): the [lo, hi) of the line without its outer blanks
TrimSpaceSpan(s, lo, hi) ==
    LET S == {i \in lo..(hi - 1) : At(s, i) \notin {" ", TAB, NL}}
    IN  IF S = {} THEN <<lo, lo>> ELSE <<Min(S), Max(S) + 1>>

\* bytes.Split(source, "\n"): the [start, end) of every line, newline excluded
LineSpans(s) ==
    LET nls == AscSeq({i \in 0..(Len(s) - 1) : At(s, i) = NL})
    IN  [k \in 1..(Len(nls) + 1) |->
            <<IF k = 1 THEN 0 ELSE nls[k - 1] + 1,
              IF k = Len(nls) + 1 THEN Len(s) ELSE nls[k]>>]

\* strconv.Itoa / fmt's %d, for n >= 0
Digits == <<"0", "1", "2", "3", "4", "5", "6", "7", "8", "9">>

RECURSIVE Itoa(_)
Itoa(n) == IF n < 10 THEN <<Digits[n + 1]>>
           ELSE Itoa(n \div 10) \o <<Digits[(n % 10) + 1]>>

\* fmt's %q (strconv.Quote): a double-quoted Go string literal.  A quote and
\* a backslash are backslash-escaped, a tab is written as the two bytes \t;
\* every other byte of this alphabet is printable and written as it is.
QuoteByte(b) ==
    IF b = QUO THEN <<BSL, QUO>>
    ELSE IF b = BSL THEN <<BSL, BSL>>
    ELSE IF b = TAB THEN <<BSL, "t">>
    ELSE <<b>>

RECURSIVE QuoteBody(_)
QuoteBody(s) == IF s = <<>> THEN <<>> ELSE QuoteByte(Head(s)) \o QuoteBody(Tail(s))

Quote(s) == <<QUO>> \o QuoteBody(s) \o <<QUO>>

----------------------------------------------------------------------------
(* The document parser (goldmark), an external collaborator: what          *)
(* md.Parser().Parse and ctx.References() report for a document of this    *)
(* alphabet.  CommonMark's rules, for constructs that lie within one line: *)
(* link reference definitions, inline links, full / collapsed / shortcut   *)
(* reference links, images and code spans; and fenced and indented code    *)
(* blocks.                                                                 *)

\* the byte 0x60 (the code span and code fence delimiter)
TICK == "TICK"

\* ASCII punctuation: a backslash before one of these is an escape
Punct == {"[", "]", "(", ")", ":", "!", "^", QUO, BSL, "<", ">", "*", "_"}

NoNode == [kind |-> "none"]

\* A quoted title starting after the opening quote at offset q (s[q] = QUO):
\* [ok, title (unescaped), close (offset of the closing quote)]
RECURSIVE ScanTitle(_, _, _, _)
ScanTitle(s, i, to, acc) ==
    IF i >= to THEN [ok |-> FALSE]
    ELSE IF At(s, i) = QUO THEN [ok |-> TRUE, title |-> acc, close |-> i]
    ELSE IF At(s, i) = BSL /\ i + 1 < to /\ At(s, i + 1) \in Punct
         THEN ScanTitle(s, i + 2, to, Append(acc, At(s, i + 1)))
    ELSE ScanTitle(s, i + 1, to, Append(acc, At(s, i)))

\* the end of a run of blanks starting at i
SkipSpaces(s, i, to) ==
    LET S == {j \in i..(to - 1) : At(s, j) # " "}
    IN  IF S = {} THEN to ELSE Min(S)

\* the end of a link destination starting at i (a run without blanks or parentheses)
DestEnd(s, i, to) ==
    LET j == IndexAny(s, {" ", TAB, "(", ")", NL}, i, to)
    IN  IF j < 0 THEN to ELSE j

\* A link reference definition filling the line [lo, hi):
\*   [label]: dest      or      [label]: dest "title"
\* footnotes: whether the footnote extension is on ([^label]: is then a footnote)
RefDefOfLine(s, lo, hi, footnotes) ==
    IF ~(lo < hi /\ At(s, lo) = "[") THEN NoNode
    ELSE
    LET c == IndexAny(s, {"]", "["}, lo + 1, hi)
    IN  IF c < 0 \/ At(s, c) # "]" \/ c = lo + 1 THEN NoNode
        ELSE IF ~(c + 1 < hi /\ At(s, c + 1) = ":") THEN NoNode
        ELSE IF footnotes /\ At(s, lo + 1) = "^" THEN NoNode
        ELSE
        LET d0 == SkipSpaces(s, c + 2, hi)
            d1 == DestEnd(s, d0, hi)
            t0 == SkipSpaces(s, d1, hi)
            def(title) == [kind |-> "def", label |-> Slice(s, lo + 1, c),
                           dest |-> Slice(s, d0, d1), title |-> title]
        IN  IF d1 = d0 THEN NoNode
            ELSE IF t0 = hi THEN def(<<>>)
            ELSE IF t0 > d1 /\ At(s, t0) = QUO
                 THEN LET t == ScanTitle(s, t0 + 1, hi, <<>>)
                      IN  IF t.ok /\ SkipSpaces(s, t.close + 1, hi) = hi
                          THEN def(t.title)
                          ELSE NoNode
            ELSE NoNode

IsBlankLine(s, lo, hi) == \A i \in lo..(hi - 1) : At(s, i) \in {" ", TAB}

\* the end of the run of TICKs starting at i
TickRunEnd(s, i, to) ==
    LET S == {j \in i..(to - 1) : At(s, j) # TICK}
    IN  IF S = {} THEN to ELSE Min(S)

\* a code fence: a line that starts with three TICKs or more
IsFenceLine(s, lo, hi) == TickRunEnd(s, lo, hi) >= lo + 3

\* a closing code fence: TICKs only, three or more
IsClosingFence(s, lo, hi) == IsFenceLine(s, lo, hi) /\ TickRunEnd(s, lo, hi) = hi

\* a line indented by four blanks
IsIndentedLine(s, lo, hi) ==
    lo + 4 < hi /\ \A i \in lo..(lo + 3) : At(s, i) = " "

\* the offset behind the code span opened by the run of n TICKs that ends at
\* j (the next run of exactly n TICKs closes it), or -1
CodeSpanEnd(s, j, to, n) ==
    LET S == {q \in j..(to - n) :
                 /\ At(s, q) = TICK /\ At(s, q - 1) # TICK
                 /\ TickRunEnd(s, q, to) = q + n}
    IN  IF S = {} THEN -1 ELSE Min(S) + n

\* A footnote definition starting the line [lo, hi) (extension.Footnote):
\*   [^label]: content
FootnoteOfLine(s, lo, hi) ==
    IF ~(lo + 1 < hi /\ At(s, lo) = "[" /\ At(s, lo + 1) = "^") THEN NoNode
    ELSE
    LET c == IndexAny(s, {"]", "["}, lo + 2, hi)
    IN  IF c < 0 \/ At(s, c) # "]" \/ c = lo + 2 THEN NoNode
        ELSE IF ~(c + 1 < hi /\ At(s, c + 1) = ":") THEN NoNode
        ELSE [kind |-> "footnote", Ref |-> Slice(s, lo + 2, c),
              Start |-> SkipSpaces(s, c + 2, hi), Stop |-> hi]

\* The block structure: for every line, "blank", "fence" (a code fence),
\* "code" (a line inside a fenced code block), "icode" (a line of an indented
\* code block), "def" (a link reference definition), "fndef" (the first line
\* of a footnote definition), "fnpara" (a further line of a footnote's
\* paragraph) or "para".  prev is "none", "para", "fn" or "fence": the
\* paragraph or fenced block the previous line left open.  A link reference
\* definition and an indented code block cannot interrupt a paragraph, a
\* footnote definition and a code fence can.
RECURSIVE LineKinds(_, _, _, _, _)
LineKinds(s, spans, k, prev, footnotes) ==
    IF k > Len(spans) THEN <<>>
    ELSE LET lo == spans[k][1]
             hi == spans[k][2]
             kind == IF prev = "fence"
                     THEN (IF IsClosingFence(s, lo, hi) THEN "fence" ELSE "code")
                     ELSE IF IsBlankLine(s, lo, hi) THEN "blank"
                     ELSE IF IsFenceLine(s, lo, hi) THEN "fence"
                     ELSE IF footnotes /\ FootnoteOfLine(s, lo, hi) # NoNode
                          THEN "fndef"
                     ELSE IF prev = "fn" THEN "fnpara"
                     ELSE IF prev = "none" /\ IsIndentedLine(s, lo, hi) THEN "icode"
                     ELSE IF prev = "none"
                             /\ RefDefOfLine(s, lo, hi, footnotes) # NoNode
                          THEN "def"
                     ELSE "para"
             open == IF kind \in {"fndef", "fnpara"} THEN "fn"
                     ELSE IF kind = "para" THEN "para"
                     ELSE IF kind = "code" \/ (kind = "fence" /\ prev # "fence")
                          THEN "fence"
                     ELSE "none"
         IN  <<kind>> \o LineKinds(s, spans, k + 1, open, footnotes)

\* ctx.References(): the definitions, in document order
References(s, footnotes) ==
    LET spans == LineSpans(s)
        kinds == LineKinds(s, spans, 1, "none", footnotes)
        ks == AscSeq({k \in 1..Len(spans) : kinds[k] = "def"})
    IN  [j \in 1..Len(ks) |->
            RefDefOfLine(s, spans[ks[j]][1], spans[ks[j]][2], footnotes)]

\* the definition a label resolves to (the first one wins), or NoNode
Resolve(refDefs, label) ==
    LET S == {j \in 1..Len(refDefs) : refDefs[j].label = label}
    IN  IF S = {} \/ label = <<>> THEN NoNode ELSE refDefs[Min(S)]

\* the children of a link whose text is [a, c): Text nodes and CodeSpan nodes
\* (i: the scan position, a: the start of the text run being read)
RECURSIVE TextChildren(_, _, _, _)
TextChildren(s, a, i, c) ==
    LET text == IF i > a THEN <<[type |-> "Text", Start |-> a, Stop |-> i]>> ELSE <<>>
    IN  IF i >= c THEN text
        ELSE IF At(s, i) # TICK THEN TextChildren(s, a, i + 1, c)
        ELSE LET r == TickRunEnd(s, i, c)
                 e == CodeSpanEnd(s, r, c, r - i)
             IN  IF e < 0 THEN TextChildren(s, a, r, c)
                 ELSE text \o <<[type |-> "CodeSpan", Start |-> r, Stop |-> e - (r - i)]>>
                      \o TextChildren(s, e, e, c)

\* ast.Link / ast.Image for the construct whose "[" is at offset i of the line
\* ending at offset to, or NoNode.  children: the node's child nodes with their
\* source segments; end: one past the construct's last byte.
LinkNode(kind, s, i, c, dest, title, end) ==
    [kind |-> kind,
     children |-> TextChildren(s, i + 1, i + 1, c),
     Destination |-> dest, Title |-> title,
     start |-> i, end |-> end]

InlineAt(s, i, c, to) ==
    IF ~(c + 1 < to /\ At(s, c + 1) = "(") THEN NoNode
    ELSE LET d0 == c + 2
             d1 == DestEnd(s, d0, to)
         IN  IF d1 >= to THEN NoNode
             ELSE IF At(s, d1) = ")"
                  THEN LinkNode("link", s, i, c, Slice(s, d0, d1), <<>>, d1 + 1)
             ELSE IF At(s, d1) = " " /\ d1 + 1 < to /\ At(s, d1 + 1) = QUO
                  THEN LET t == ScanTitle(s, d1 + 2, to, <<>>)
                       IN  IF t.ok /\ t.close + 1 < to /\ At(s, t.close + 1) = ")"
                           THEN LinkNode("link", s, i, c, Slice(s, d0, d1),
                                         t.title, t.close + 2)
                           ELSE NoNode
             ELSE NoNode

ReferenceAt(s, i, c, to, refDefs) ==
    LET text == Slice(s, i + 1, c)
        k == IF c + 1 < to /\ At(s, c + 1) = "["
             THEN IndexAny(s, {"]", "["}, c + 2, to) ELSE -1
        labelled == k >= 0 /\ At(s, k) = "]"
        label == IF labelled /\ k > c + 2 THEN Slice(s, c + 2, k) ELSE text
        def == Resolve(refDefs, label)
    IN  IF def = NoNode THEN NoNode
        ELSE LinkNode("link", s, i, c, def.dest, def.title,
                      IF labelled THEN k + 1 ELSE c + 1)

\* the first bracket at or behind i that is not inside a code span, or -1
RECURSIVE BracketFrom(_, _, _)
BracketFrom(s, i, to) ==
    IF i >= to THEN -1
    ELSE IF At(s, i) \in {"]", "["} THEN i
    ELSE IF At(s, i) # TICK THEN BracketFrom(s, i + 1, to)
    ELSE LET r == TickRunEnd(s, i, to)
             e == CodeSpanEnd(s, r, to, r - i)
         IN  BracketFrom(s, IF e < 0 THEN r ELSE e, to)

ConstructAt(s, i, to, refDefs) ==
    LET c == BracketFrom(s, i + 1, to)
    IN  IF c < 0 \/ At(s, c) # "]" THEN NoNode
        ELSE LET inl == InlineAt(s, i, c, to)
             IN  IF inl # NoNode THEN inl ELSE ReferenceAt(s, i, c, to, refDefs)

\* the inline nodes of the paragraph line [i, to), in document order
RECURSIVE InlineNodes(_, _, _, _)
InlineNodes(s, i, to, refDefs) ==
    IF i >= to THEN <<>>
    ELSE IF At(s, i) = TICK
         THEN LET r == TickRunEnd(s, i, to)
                  e == CodeSpanEnd(s, r, to, r - i)
              IN  InlineNodes(s, IF e < 0 THEN r ELSE e, to, refDefs)
    ELSE IF At(s, i) = "!" /\ i + 1 < to /\ At(s, i + 1) = "["
         THEN LET n == ConstructAt(s, i + 1, to, refDefs)
              IN  IF n = NoNode THEN InlineNodes(s, i + 1, to, refDefs)
                  ELSE <<[n EXCEPT !.kind = "image", !.start = i]>>
                       \o InlineNodes(s, n.end, to, refDefs)
    ELSE IF At(s, i) = "["
         THEN LET n == ConstructAt(s, i, to, refDefs)
              IN  IF n = NoNode THEN InlineNodes(s, i + 1, to, refDefs)
                  ELSE <<n>> \o InlineNodes(s, n.end, to, refDefs)
    ELSE InlineNodes(s, i + 1, to, refDefs)

RECURSIVE ParaNodes(_, _, _, _, _)
ParaNodes(s, spans, kinds, k, refDefs) ==
    IF k > Len(spans) THEN <<>>
    ELSE (IF kinds[k] = "para"
          THEN InlineNodes(s, spans[k][1], spans[k][2], refDefs) ELSE <<>>)
         \o ParaNodes(s, spans, kinds, k + 1, refDefs)

\* md.Parser().Parse(reader): the link and image nodes ast.Walk meets, in order
Parse(s, footnotes) ==
    LET spans == LineSpans(s)
    IN  ParaNodes(s, spans, LineKinds(s, spans, 1, "none", footnotes), 1,
                  References(s, footnotes))

----------------------------------------------------------------------------
(* cmd/mdref: inline links to numbered reference-style links *)

\* findRefDefRanges: the byte range of every line that, trimmed, starts with
\* "[" and holds "]:" after a label that does not start with "^"
IndexCloseColon(s, lo, hi) ==
    LET S == {i \in lo..(hi - 2) : At(s, i) = "]" /\ At(s, i + 1) = ":"}
    IN  IF S = {} THEN -1 ELSE Min(S) - lo

IsRefDefLine(s, lo, hi) ==
    LET t == TrimSpaceSpan(s, lo, hi)
        closeBracket == IndexCloseColon(s, t[1], t[2])
    IN  /\ t[2] > t[1]
        /\ At(s, t[1]) = "["
        /\ closeBracket > 1
        /\ At(s, t[1] + 1) # "^"

findRefDefRanges(src) ==
    LET spans == LineSpans(src)
        ks == AscSeq({k \in 1..Len(spans) :
                         IsRefDefLine(src, spans[k][1], spans[k][2])})
    IN  [j \in 1..Len(ks) |-> ByteRange(spans[ks[j]][1], spans[ks[j]][2] + 1)]

\* The scan of findLinkExtent from the end of the link text: the offset one
\* past the ")" that brings the depth back to 0, or past a "]" behind the
\* text; it stops at a newline and at the end of the source.
RECURSIVE ScanLinkEnd(_, _, _, _)
ScanLinkEnd(src, textEnd, end, depth) ==
    IF end >= Len(src) THEN end
    ELSE LET ch == At(src, end)
         IN  IF ch = "(" THEN ScanLinkEnd(src, textEnd, end + 1, depth + 1)
             ELSE IF ch = ")"
                  THEN IF depth <= 1 THEN end + 1
                       ELSE ScanLinkEnd(src, textEnd, end + 1, depth - 1)
             ELSE IF ch = "]" /\ end > textEnd THEN end + 1
             ELSE IF ch = NL THEN end
             ELSE ScanLinkEnd(src, textEnd, end + 1, depth)

\* func findLinkExtent(node *ast.Link, source []byte) (int, int)
findLinkExtent(node, src) ==
    IF Len(node.children) = 0 THEN <<-1, -1>>
    ELSE LET firstChild == node.children[1]
             lastChild == node.children[Len(node.children)]
             start == firstChild.Start - 1
         IN  IF firstChild.type # "Text" THEN <<-1, -1>>
             ELSE IF start < 0 \/ At(src, start) # "[" THEN <<-1, -1>>
             ELSE IF lastChild.type # "Text" THEN <<-1, -1>>
             ELSE <<start, ScanLinkEnd(src, lastChild.Stop, lastChild.Stop, 0)>>

\* "Get link text from children": the bytes of the Text children, concatenated
RECURSIVE LinkText(_, _, _)
LinkText(src, children, k) ==
    IF k > Len(children) THEN <<>>
    ELSE (IF children[k].type = "Text"
          THEN Slice(src, children[k].Start, children[k].Stop) ELSE <<>>)
         \o LinkText(src, children, k + 1)

\* "Skip links that are inside reference definitions"
InsideRange(start, end, ranges) ==
    \E i \in 1..Len(ranges) : start >= ranges[i].Start /\ end <= ranges[i].End

\* the callback of ast.Walk for one node: the linkInfo appended, if any
LinkInfoOf(node, src, refDefRanges) ==
    LET ext == findLinkExtent(node, src)
    IN  IF node.kind # "link" THEN <<>>
        ELSE IF ext[1] < 0 \/ ext[2] < 0 THEN <<>>
        ELSE IF InsideRange(ext[1], ext[2], refDefRanges) THEN <<>>
        ELSE <<[start |-> ext[1], end |-> ext[2],
                text |-> LinkText(src, node.children, 1),
                url |-> node.Destination, title |-> node.Title]>>

RECURSIVE WalkLinks(_, _, _, _)
WalkLinks(nodes, k, src, refDefRanges) ==
    IF k > Len(nodes) THEN <<>>
    ELSE LinkInfoOf(nodes[k], src, refDefRanges)
         \o WalkLinks(nodes, k + 1, src, refDefRanges)

\* sort.Slice(links, by start)
RECURSIVE SortByStart(_)
SortByStart(lks) ==
    IF lks = <<>> THEN <<>>
    ELSE LET m == Min({lks[i].start : i \in 1..Len(lks)})
             k == Min({i \in 1..Len(lks) : lks[i].start = m})
         IN  <<lks[k]>>
             \o SortByStart([j \in 1..(Len(lks) - 1) |->
                                IF j < k THEN lks[j] ELSE lks[j + 1]])

\* the links collected from the AST, sorted by position
MdrefLinks(src) ==
    SortByStart(WalkLinks(Parse(src, FALSE), 1, src, findRefDefRanges(src)))

NUL == "NUL"

\* (a slip: the title left out of the key)
RefKeyUrlOnly(url, title) == url

\* "Create deduplication key"
RefKey(url, title) == IF title # <<>> THEN url \o <<NUL>> \o title ELSE url

\* fmt.Sprintf("[%s][%d]", link.text, refNum)
RefToken(text, refNum) == <<"[">> \o text \o <<"]", "[">> \o Itoa(refNum) \o <<"]">>

\* (a slip: the title is never written)
DefLineNoTitle(n, ref) ==
    <<"[">> \o Itoa(n) \o <<"]", ":", " ">> \o ref.url \o <<NL>>

\* fmt.Fprintf(&result, "[%d]: %s %q\n" | "[%d]: %s\n", i+1, ref.url, ref.title)
DefLine(n, ref) ==
    <<"[">> \o Itoa(n) \o <<"]", ":", " ">> \o ref.url
    \o (IF ref.title # <<>> THEN <<" ">> \o Quote(ref.title) ELSE <<>>) \o <<NL>>

RECURSIVE DefBlock(_, _)
DefBlock(rfs, k) ==
    IF k > Len(rfs) THEN <<>> ELSE DefLine(k, rfs[k]) \o DefBlock(rfs, k + 1)

\* the state of transform's assembly loop: the locals lastEnd, result,
\* urlToRef and refs; nums records the number given to each link processed,
\* copied the source offsets written to result, panic a slice out of range
MdrefStart ==
    [lastEnd |-> 0, result |-> <<>>, urlToRef |-> <<>>, refs |-> <<>>,
     nums |-> <<>>, copied |-> <<>>, panic |-> FALSE]

\* (a slip: the number is taken from the count of links, not of references)
AssignRefCountsLinks(link, st) ==
    LET refKey == RefKey(link.url, link.title)
        exists == refKey \in DOMAIN st.urlToRef
        refNum == IF exists THEN st.urlToRef[refKey] ELSE Len(st.nums) + 1
    IN  [refNum |-> refNum,
         urlToRef |-> IF exists THEN st.urlToRef
                      ELSE [k \in DOMAIN st.urlToRef \cup {refKey} |->
                               IF k = refKey THEN refNum ELSE st.urlToRef[k]],
         refs |-> IF exists THEN st.refs
                  ELSE Append(st.refs, [url |-> link.url, title |-> link.title])]

\* (a slip: the number is not stored in urlToRef)
AssignRefNotStored(link, st) ==
    [refNum |-> Len(st.refs) + 1,
     urlToRef |-> st.urlToRef,
     refs |-> Append(st.refs, [url |-> link.url, title |-> link.title])]

\* "Create deduplication key" and "Get or assign reference number"
AssignRef(link, st) ==
    LET refKey == RefKey(link.url, link.title)
        exists == refKey \in DOMAIN st.urlToRef
        refNum == IF exists THEN st.urlToRef[refKey] ELSE Len(st.refs) + 1
    IN  [refNum |-> refNum,
         urlToRef |-> IF exists THEN st.urlToRef
                      ELSE [k \in DOMAIN st.urlToRef \cup {refKey} |->
                               IF k = refKey THEN refNum ELSE st.urlToRef[k]],
         refs |-> IF exists THEN st.refs
                  ELSE Append(st.refs, [url |-> link.url, title |-> link.title])]

\* one iteration of 'for _, link := range links'
MdrefStep(src, excludeRanges, link, st) ==
    IF st.lastEnd > link.start
    THEN [st EXCEPT !.panic = TRUE]      \* source[lastEnd:link.start] is out of range
    ELSE
    LET a == AssignRef(link, st)
    IN  [lastEnd |-> link.end,
         result |-> st.result
                    \o ExcludeRanges(Slice(src, st.lastEnd, link.start),
                                     st.lastEnd, excludeRanges)
                    \o RefToken(link.text, a.refNum),
         urlToRef |-> a.urlToRef,
         refs |-> a.refs,
         nums |-> Append(st.nums, a.refNum),
         copied |-> st.copied
                    \o ExcludeRanges(Offsets(st.lastEnd, link.start),
                                     st.lastEnd, excludeRanges),
         panic |-> FALSE]

\* "Write remaining content" and "Append new reference definitions"
MdrefFinish(src, excludeRanges, st) ==
    LET remaining == ExcludeRanges(Slice(src, st.lastEnd, Len(src)),
                                   st.lastEnd, excludeRanges)
        trimmed == TrimRightNL(remaining)
        offs == ExcludeRanges(Offsets(st.lastEnd, Len(src)),
                              st.lastEnd, excludeRanges)
    IN  [st EXCEPT
           !.result = st.result \o trimmed \o <<NL>>
                      \o (IF Len(st.refs) > 0
                          THEN <<NL>> \o DefBlock(st.refs, 1) ELSE <<>>),
           !.copied = st.copied \o SubSeq(offs, 1, Len(trimmed))]

RECURSIVE MdrefLoop(_, _, _, _, _)
MdrefLoop(src, excludeRanges, lks, k, st) ==
    IF k > Len(lks) \/ st.panic THEN st
    ELSE MdrefLoop(src, excludeRanges, lks, k + 1,
                   MdrefStep(src, excludeRanges, lks[k], st))

\* func transform(content string) string, as one step: [panic, result]
MdrefEnd(src, ranges, st) ==
    IF st.panic THEN st ELSE MdrefFinish(src, ranges, st)

MdrefRun(src, ranges) ==
    MdrefEnd(src, ranges, MdrefLoop(src, ranges, MdrefLinks(src), 1, MdrefStart))

MdrefTransform(src) == MdrefRun(src, findRefDefRanges(src))

----------------------------------------------------------------------------
(* The parser with extension.Footnote: footnote definitions and footnote   *)
(* references.  For documents whose footnote contents hold no footnote     *)
(* reference: a footnote's Index is then its rank by first reference in    *)
(* document order.                                                         *)

\* the position of x in seq, or 0
IndexIn(seq, x) ==
    LET S == {k \in 1..Len(seq) : seq[k] = x}
    IN  IF S = {} THEN 0 ELSE Min(S)

\* the elements of seq in the order in which each first appears
RECURSIVE Uniq(_, _)
Uniq(seq, seen) ==
    IF seq = <<>> THEN <<>>
    ELSE IF Head(seq) \in seen THEN Uniq(Tail(seq), seen)
    ELSE <<Head(seq)>> \o Uniq(Tail(seq), seen \cup {Head(seq)})

\* strings.TrimSpace(s)
TrimSpace(s) ==
    LET t == TrimSpaceSpan(s, 0, Len(s)) IN Slice(s, t[1], t[2])

\* the footnote definitions in document order: [Ref, Start, Stop], the label
\* and the span of the definition's paragraph lines
FootnoteBlocks(s) ==
    LET spans == LineSpans(s)
        kinds == LineKinds(s, spans, 1, "none", TRUE)
        ks == AscSeq({k \in 1..Len(spans) : kinds[k] = "fndef"})
        last(k) == Max({m \in k..Len(spans) :
                           \A n \in (k + 1)..m : kinds[n] = "fnpara"})
    IN  [j \in 1..Len(ks) |->
            LET f == FootnoteOfLine(s, spans[ks[j]][1], spans[ks[j]][2])
            IN  [Ref |-> f.Ref, Start |-> f.Start,
                 Stop |-> spans[last(ks[j])][2]]]

\* the footnote references of the line part [i, to): a "[^label]" whose label
\* has a definition
RECURSIVE FootnoteLinksIn(_, _, _, _)
FootnoteLinksIn(s, i, to, labels) ==
    IF i + 1 >= to THEN <<>>
    ELSE IF At(s, i) = "[" /\ At(s, i + 1) = "^"
         THEN LET c == IndexAny(s, {"]", "["}, i + 2, to)
              IN  IF c > i + 2 /\ At(s, c) = "]" /\ Slice(s, i + 2, c) \in labels
                  THEN <<[Ref |-> Slice(s, i + 2, c), start |-> i, end |-> c + 1]>>
                       \o FootnoteLinksIn(s, c + 1, to, labels)
                  ELSE FootnoteLinksIn(s, i + 1, to, labels)
    ELSE FootnoteLinksIn(s, i + 1, to, labels)

RECURSIVE FootnoteLinksOfLines(_, _, _, _, _)
FootnoteLinksOfLines(s, spans, kinds, k, labels) ==
    IF k > Len(spans) THEN <<>>
    ELSE (IF kinds[k] \in {"para", "fnpara"}
          THEN FootnoteLinksIn(s, spans[k][1], spans[k][2], labels)
          ELSE IF kinds[k] = "fndef"
          THEN FootnoteLinksIn(s, FootnoteOfLine(s, spans[k][1], spans[k][2]).Start,
                               spans[k][2], labels)
          ELSE <<>>)
         \o FootnoteLinksOfLines(s, spans, kinds, k + 1, labels)

\* the first definition of a label
FootnoteBlockOf(blocks, label) ==
    blocks[Min({j \in 1..Len(blocks) : blocks[j].Ref = label})]

\* the nodes, from the reference occurrences occ, the labels order in the
\* order of their first reference, and the definitions blocks
FootnoteNodes(s, occ, order, blocks) ==
    [links |-> [k \in 1..Len(occ) |->
                   [Index |-> IndexIn(order, occ[k].Ref),
                    start |-> occ[k].start, end |-> occ[k].end]],
     footnotes |-> [n \in 1..Len(order) |->
                       [Index |-> n, Ref |-> order[n],
                        raw |-> Slice(s, FootnoteBlockOf(blocks, order[n]).Start,
                                      Min({FootnoteBlockOf(blocks, order[n]).Stop + 1,
                                           Len(s)}))]]]

FootnoteOccurrences(s, spans, blocks) ==
    FootnoteLinksOfLines(s, spans, LineKinds(s, spans, 1, "none", TRUE), 1,
                         {blocks[j].Ref : j \in 1..Len(blocks)})

FootnoteNodesOf(s, occ, blocks) ==
    FootnoteNodes(s, occ, Uniq([k \in 1..Len(occ) |-> occ[k].Ref], {}), blocks)

FootnoteNodesIn(s, blocks) ==
    FootnoteNodesOf(s, FootnoteOccurrences(s, LineSpans(s), blocks), blocks)

\* md.Parser().Parse(reader) with extension.Footnote:
\*   links:     the extast.FootnoteLink nodes in document order, [Index, start, end]
\*   footnotes: the extast.Footnote nodes (the referenced definitions) by
\*              Index, [Index, Ref, raw] (raw: the bytes of the paragraph lines)
ParseFootnotes(s) == FootnoteNodesIn(s, FootnoteBlocks(s))

----------------------------------------------------------------------------
(* cmd/mdsidenote: footnotes to sidenote HTML *)

\* the end of the "[^...]" that starts at i: the first "]" or newline behind it
FootnoteRefClose(src, i) ==
    LET e == IndexAny(src, {"]", NL}, i + 2, Len(src))
    IN  IF e < 0 THEN Len(src) ELSE e

\* the starts of the footnote reference patterns: "[^", closed by "]" on the
\* line, not followed by ":"
FootnoteRefStarts(src) ==
    {i \in 0..(Len(src) - 3) :
        /\ At(src, i) = "[" /\ At(src, i + 1) = "^"
        /\ LET end == FootnoteRefClose(src, i)
           IN  /\ end < Len(src) /\ At(src, end) = "]"
               /\ (end + 1 >= Len(src) \/ At(src, end + 1) # ":")}

\* func findFootnoteRefExtent(index int, source []byte) (int, int)
findFootnoteRefExtent(index, src) ==
    LET starts == AscSeq(FootnoteRefStarts(src))
    IN  IF index >= 1 /\ index <= Len(starts)
        THEN <<starts[index], FootnoteRefClose(src, starts[index]) + 1>>
        ELSE <<-1, -1>>

\* bytes.Index(s, pat)
Index(s, pat) ==
    LET S == {i \in 0..(Len(s) - Len(pat)) : Slice(s, i, i + Len(pat)) = pat}
    IN  IF S = {} THEN -1 ELSE Min(S)

\* the end of the line that starts at i
LineEndFrom(src, i) ==
    LET e == IndexAny(src, {NL}, i, Len(src))
    IN  IF e < 0 THEN Len(src) ELSE e

\* "Continue through continuation lines (indented or blank)"
RECURSIVE DefExtentEnd(_, _)
DefExtentEnd(src, end) ==
    IF end >= Len(src) THEN end
    ELSE LET lineEnd == LineEndFrom(src, end)
         IN  IF lineEnd = end \/ At(src, end) \in {" ", TAB}
             THEN DefExtentEnd(src, IF lineEnd < Len(src) THEN lineEnd + 1 ELSE lineEnd)
             ELSE end

\* func findFootnoteDefExtent(label string, source []byte) (int, int)
findFootnoteDefExtent(label, src) ==
    LET idx == Index(src, <<"[", "^">> \o label \o <<"]", ":">>)
        eol == LineEndFrom(src, idx)
    IN  IF idx < 0 THEN <<-1, -1>>
        ELSE <<idx, DefExtentEnd(src, IF eol < Len(src) THEN eol + 1 ELSE eol)>>

\* the end of a run of white space (newlines included) starting at i: \s*
SkipWhite(s, i) ==
    LET S == {j \in i..(Len(s) - 1) : At(s, j) \notin {" ", TAB, NL}}
    IN  IF S = {} THEN Len(s) ELSE Min(S)

\* the end of a run without white space starting at i: \S+
SkipNonWhite(s, i) ==
    LET S == {j \in i..(Len(s) - 1) : At(s, j) \in {" ", TAB, NL}}
    IN  IF S = {} THEN Len(s) ELSE Min(S)

\* one match of (?m)^\[([^\]]+)\]:\s*(\S+).*$ at the line start p, or NoNode
LinkDefAt(src, p) ==
    IF ~(p < Len(src) /\ At(src, p) = "[") THEN NoNode
    ELSE
    LET c == IndexAny(src, {"]"}, p + 1, Len(src))
    IN  IF c <= p + 1 THEN NoNode
        ELSE IF ~(c + 1 < Len(src) /\ At(src, c + 1) = ":") THEN NoNode
        ELSE LET u0 == SkipWhite(src, c + 2)
                 u1 == SkipNonWhite(src, u0)
             IN  IF u0 >= Len(src) THEN NoNode
                 ELSE [kind |-> "linkdef", label |-> Slice(src, p + 1, c),
                       url |-> Slice(src, u0, u1),
                       start |-> p, stop |-> LineEndFrom(src, u1)]

\* FindAllSubmatchIndex: the matches from offset p on, left to right
RECURSIVE LinkDefMatches(_, _)
LinkDefMatches(src, p) ==
    IF p >= Len(src) THEN <<>>
    ELSE LET m == IF p = 0 \/ At(src, p - 1) = NL THEN LinkDefAt(src, p) ELSE NoNode
         IN  IF m = NoNode THEN LinkDefMatches(src, p + 1)
             ELSE <<m>> \o LinkDefMatches(src, m.stop)

\* func collectLinkDefs(source []byte) []linkDef
collectLinkDefs(src) ==
    LET ms == LinkDefMatches(src, 0)
        keep == AscSeq({k \in 1..Len(ms) : Head(ms[k].label) # "^"})
    IN  [j \in 1..Len(keep) |->
            [label |-> ms[keep[j]].label, url |-> ms[keep[j]].url,
             start |-> ms[keep[j]].start, end |-> ms[keep[j]].stop + 1]]

\* func findRefLinksInText(text string) map[string]bool: the labels matched by
\*   \[([^\]]+)\]\[([^\]]*)\]|\[([^\]]+)\](?:\[([^\]]*)\])?
RECURSIVE RefLabelsFrom(_, _)
RefLabelsFrom(text, i) ==
    IF i >= Len(text) THEN {}
    ELSE IF At(text, i) # "[" THEN RefLabelsFrom(text, i + 1)
    ELSE LET c == IndexAny(text, {"]"}, i + 1, Len(text))
         IN  IF c <= i + 1 THEN RefLabelsFrom(text, i + 1)
             ELSE LET k == IF c + 1 < Len(text) /\ At(text, c + 1) = "["
                           THEN IndexAny(text, {"]"}, c + 2, Len(text)) ELSE -1
                  IN  IF k > c + 2
                      THEN {Slice(text, c + 2, k)} \cup RefLabelsFrom(text, k + 1)
                      ELSE {Slice(text, i + 1, c)}
                           \cup RefLabelsFrom(text, IF k >= 0 THEN k + 1 ELSE c + 1)

findRefLinksInText(text) == RefLabelsFrom(text, 0)

\* sort.Slice(ranges, by Start): an insertion sort for these short lists, so
\* ranges of equal Start keep their order
RECURSIVE SortRanges(_)
SortRanges(rs) ==
    IF rs = <<>> THEN <<>>
    ELSE LET m == Min({rs[i].Start : i \in 1..Len(rs)})
             k == Min({i \in 1..Len(rs) : rs[i].Start = m})
         IN  <<rs[k]>>
             \o SortRanges([j \in 1..(Len(rs) - 1) |->
                               IF j < k THEN rs[j] ELSE rs[j + 1]])

\* func findBodyRefLinks(source []byte, footnoteDefs map[int]footnoteDef) map[string]bool
findBodyRefLinks(src, footnoteDefs) ==
    LET ms == LinkDefMatches(src, 0)
        excludeRanges ==
            SortRanges([n \in 1..Len(footnoteDefs) |->
                           ByteRange(footnoteDefs[n].start, footnoteDefs[n].end)]
                       \o [k \in 1..Len(ms) |-> ByteRange(ms[k].start, ms[k].stop)])
    IN  findRefLinksInText(ExcludeRanges(src, 0, excludeRanges))

\* goldmark's HTML for the inline content of one paragraph: a link becomes an
\* anchor, an image an img tag, a quote is escaped, other bytes are text
AOpen == "<a href=\""
ATitle == "\" title=\""
AEnd == "\">"
AClose == "</a>"
ImgOpen == "<img src=\""
ImgAlt == "\" alt=\""
QuotEntity == "&quot;"

RECURSIVE EscapeHTML(_)
EscapeHTML(s) ==
    IF s = <<>> THEN <<>>
    ELSE (IF Head(s) = QUO THEN <<QuotEntity>> ELSE <<Head(s)>>) \o EscapeHTML(Tail(s))

RenderNode(s, n) ==
    LET text == EscapeHTML(LinkText(s, n.children, 1))
        title == IF n.Title # <<>> THEN <<ATitle>> \o EscapeHTML(n.Title) ELSE <<>>
    IN  IF n.kind = "image"
        THEN <<ImgOpen>> \o n.Destination \o <<ImgAlt>> \o text \o title \o <<AEnd>>
        ELSE <<AOpen>> \o n.Destination \o title \o <<AEnd>> \o text \o <<AClose>>

RECURSIVE RenderFrom(_, _, _, _)
RenderFrom(s, nodes, k, pos) ==
    IF k > Len(nodes) THEN EscapeHTML(Slice(s, pos, Len(s)))
    ELSE EscapeHTML(Slice(s, pos, nodes[k].start)) \o RenderNode(s, nodes[k])
         \o RenderFrom(s, nodes, k + 1, nodes[k].end)

\* md.Convert(content), then TrimSpace and the <p> and </p> stripped
ConvertInline(content) ==
    TrimSpace(RenderFrom(content, InlineNodes(content, 0, Len(content), <<>>), 1, 0))

\* the url of the last definition of a label
LinkMapUrl(lds, label) ==
    lds[Max({k \in 1..Len(lds) : lds[k].label = label})].url

\* re1 of renderFootnoteContentWithRefs: \[([^\]]+)\]\[([^\]]+)\]; a match
\* [text][label] becomes [text](url) when the label has a definition
RECURSIVE InlineFullRefs(_, _, _)
InlineFullRefs(text, i, lds) ==
    IF i >= Len(text) THEN <<>>
    ELSE LET c == IF At(text, i) = "[" THEN IndexAny(text, {"]"}, i + 1, Len(text))
                  ELSE -1
             k == IF c > i + 1 /\ c + 1 < Len(text) /\ At(text, c + 1) = "["
                  THEN IndexAny(text, {"]"}, c + 2, Len(text)) ELSE -1
         IN  IF k > c + 2 /\ c > i + 1
             THEN (IF \E j \in 1..Len(lds) : lds[j].label = Slice(text, c + 2, k)
                   THEN <<"[">> \o Slice(text, i + 1, c) \o <<"]", "(">>
                        \o LinkMapUrl(lds, Slice(text, c + 2, k)) \o <<")">>
                   ELSE Slice(text, i, k + 1))
                  \o InlineFullRefs(text, k + 1, lds)
             ELSE <<At(text, i)>> \o InlineFullRefs(text, i + 1, lds)

\* re2 of renderFootnoteContentWithRefs: \[([^\]]+)\]\[\]; a match [label][]
\* becomes [label](url) when the label has a definition
RECURSIVE InlineCollapsedRefs(_, _, _)
InlineCollapsedRefs(text, i, lds) ==
    IF i >= Len(text) THEN <<>>
    ELSE LET c == IF At(text, i) = "[" THEN IndexAny(text, {"]"}, i + 1, Len(text))
                  ELSE -1
         IN  IF /\ c > i + 1 /\ c + 2 < Len(text)
                /\ At(text, c + 1) = "[" /\ At(text, c + 2) = "]"
             THEN (IF \E j \in 1..Len(lds) : lds[j].label = Slice(text, i + 1, c)
                   THEN <<"[">> \o Slice(text, i + 1, c) \o <<"]", "(">>
                        \o LinkMapUrl(lds, Slice(text, i + 1, c)) \o <<")">>
                   ELSE Slice(text, i, c + 3))
                  \o InlineCollapsedRefs(text, c + 3, lds)
             ELSE <<At(text, i)>> \o InlineCollapsedRefs(text, i + 1, lds)

\* func renderFootnoteContentWithRefs(rawContent string, linkDefs []linkDef, md) string
renderFootnoteContentWithRefs(rawContent, lds) ==
    ConvertInline(InlineCollapsedRefs(InlineFullRefs(rawContent, 0, lds), 0, lds))

\* the bytes written for a reference that has a definition
LabelFor == "<label for=\"sidenote-"
LabelRest == "\" class=\"margin-toggle sidenote-number\"></label>"
InputId == "<input type=\"checkbox\" id=\"sidenote-"
InputRest == "\" class=\"margin-toggle\"/>"
SpanSidenote == "<span class=\"sidenote\">"
SpanHidden == "<span class=\"hidden\">"
SpanClose == "</span>"

SidenoteHTML(num, content) ==
    <<NL, LabelFor>> \o num \o <<LabelRest, NL, InputId>> \o num
    \o <<InputRest, NL, SpanSidenote, SpanHidden, "(", SpanClose>>
    \o content \o <<SpanHidden, ")", SpanClose, SpanClose>>

\* strconv.Atoi(label) succeeds: digits behind an optional sign
DigitSet == {Digits[i] : i \in 1..Len(Digits)}

IsNumeric(label) ==
    LET body == IF label # <<>> /\ Head(label) \in {"+", "-"} THEN Tail(label) ELSE label
    IN  body # <<>> /\ \A i \in 1..Len(body) : body[i] \in DigitSet

\* "Create renumbering map (only for numeric labels)"
RECURSIVE RenumberMap(_, _, _, _)
RenumberMap(keptLabels, k, newNum, m) ==
    IF k > Len(keptLabels) THEN m
    ELSE IF IsNumeric(keptLabels[k])
         THEN RenumberMap(keptLabels, k + 1, newNum + 1,
                          [x \in DOMAIN m \cup {keptLabels[k]} |->
                              IF x = keptLabels[k] THEN Itoa(newNum) ELSE m[x]])
    ELSE RenumberMap(keptLabels, k + 1, newNum, m)

Renumber(lds, removed) ==
    LET kept == AscSeq({k \in 1..Len(lds) : lds[k].label \notin removed})
    IN  RenumberMap([j \in 1..Len(kept) |-> lds[kept[j]].label], 1, 1, <<>>)

\* the labels the two loops of renumberLinkRefs act on
RenumberChanged(lds, removed) ==
    LET renumber == Renumber(lds, removed)
    IN  {old \in DOMAIN renumber : old # renumber[old]}

\* the orders in which a range over a map with the keys S may visit them
MapOrders(S) ==
    {o \in [1..Cardinality(S) -> S] : \A i, j \in DOMAIN o : i # j => o[i] # o[j]}

\* regexp.ReplaceAllString for a literal pattern; atLineStart: under (?m)^
RECURSIVE ReplaceAll(_, _, _, _, _)
ReplaceAll(s, i, pat, rep, atLineStart) ==
    IF i >= Len(s) THEN <<>>
    ELSE IF /\ i + Len(pat) <= Len(s)
            /\ Slice(s, i, i + Len(pat)) = pat
            /\ (atLineStart => (i = 0 \/ At(s, i - 1) = NL))
         THEN rep \o ReplaceAll(s, i + Len(pat), pat, rep, atLineStart)
    ELSE <<At(s, i)>> \o ReplaceAll(s, i + 1, pat, rep, atLineStart)

\* "Replace reference usages [text][N]", in the order the map is visited
RECURSIVE ReplaceUsages(_, _, _, _)
ReplaceUsages(text, renumber, order, k) ==
    IF k > Len(order) THEN text
    ELSE ReplaceUsages(
             ReplaceAll(text, 0, <<"]", "[">> \o order[k] \o <<"]">>,
                        <<"]", "[">> \o renumber[order[k]] \o <<"]">>, FALSE),
             renumber, order, k + 1)

\* "Replace definitions [N]:", in the order the map is visited
RECURSIVE ReplaceDefs(_, _, _, _)
ReplaceDefs(text, renumber, order, k) ==
    IF k > Len(order) THEN text
    ELSE ReplaceDefs(
             ReplaceAll(text, 0, <<"[">> \o order[k] \o <<"]", ":">>,
                        <<"[">> \o renumber[order[k]] \o <<"]", ":">>, TRUE),
             renumber, order, k + 1)

\* func renumberLinkRefs(text string, linkDefs []linkDef, removed map[string]bool) string
\* usageOrder, defOrder: the orders in which its two loops visit the map
renumberLinkRefs(text, lds, removed, usageOrder, defOrder) ==
    LET renumber == Renumber(lds, removed)
    IN  ReplaceDefs(ReplaceUsages(text, renumber, usageOrder, 1),
                    renumber, defOrder, 1)

\* the callback of ast.Walk for the extast.FootnoteLink nodes, and the sort
SideRefsOf(nodes, refExt) ==
    SortByStart(
        LET found == AscSeq({k \in 1..Len(nodes) :
                                refExt[k][1] >= 0 /\ refExt[k][2] >= 0})
        IN  [j \in 1..Len(found) |->
                [start |-> refExt[found[j]][1], end |-> refExt[found[j]][2],
                 index |-> nodes[found[j]].Index]])

SideRefs(src, nodes) ==
    SideRefsOf(nodes, [k \in 1..Len(nodes) |->
                          findFootnoteRefExtent(nodes[k].Index, src)])

\* one footnoteDef, with its rendered content
SideDefOf(ref, ext, raw, lds) ==
    [start |-> ext[1], end |-> ext[2], ref |-> ref, rawContent |-> raw,
     content |-> renderFootnoteContentWithRefs(raw, lds)]

\* the callback of ast.Walk for the extast.Footnote nodes, and "Render
\* footnote content with reference links resolved"
SideDefs(src, footnotes, lds) ==
    [n \in 1..Len(footnotes) |->
        SideDefOf(footnotes[n].Ref, findFootnoteDefExtent(footnotes[n].Ref, src),
                  TrimSpace(footnotes[n].raw), lds)]

\* "Assign sidenote numbers in order of appearance"
SidenoteNumOf(order) ==
    [x \in {order[k] : k \in 1..Len(order)} |-> IndexIn(order, x)]

\* "Track which link references are used in footnotes vs body"
RefsToRemove(src, dfs) ==
    UNION {findRefLinksInText(dfs[n].rawContent) : n \in 1..Len(dfs)}
    \ findBodyRefLinks(src, dfs)

\* the ranges of the link definitions to remove
LinkDefRangesOf(lds, rm) ==
    [j \in 1..Len(rm) |-> ByteRange(lds[rm[j]].start, lds[rm[j]].end)]

\* "Combine all ranges to exclude"
AllExcludeRanges(dfs, lds, remove) ==
    SortRanges(
        SortRanges([n \in 1..Len(dfs) |-> ByteRange(dfs[n].start, dfs[n].end)])
        \o SortRanges(LinkDefRangesOf(lds,
               AscSeq({k \in 1..Len(lds) : lds[k].label \in remove}))))

SideLocalsOf(refsFound, dfs, lds, remove) ==
    [refs |-> refsFound,
     defs |-> dfs,
     sidenoteNum |-> SidenoteNumOf(Uniq([k \in 1..Len(refsFound) |->
                                            refsFound[k].index], {})),
     linkDefs |-> lds,
     refsToRemove |-> remove,
     allExcludeRanges |-> AllExcludeRanges(dfs, lds, remove)]

SideWithDefs(src, refsFound, dfs, lds) ==
    SideLocalsOf(refsFound, dfs, lds, RefsToRemove(src, dfs))

SideParsed(src, p, lds) ==
    SideWithDefs(src, SideRefs(src, p.links), SideDefs(src, p.footnotes, lds), lds)

\* transform up to the assembly loop: what the walk, the sorts and the maps hold
\*   refs: the footnote references found, sorted by start
\*   defs: index -> footnoteDef, with the rendered content
SideCollected(src) == SideParsed(src, ParseFootnotes(src), collectLinkDefs(src))

\* one iteration of 'for _, ref := range refs'; st = [lastEnd, result, panic]
SideStepOf(src, c, ref, st) ==
    IF st.lastEnd > ref.start
    THEN [st EXCEPT !.panic = TRUE]      \* source[lastEnd:ref.start] is out of range
    ELSE [lastEnd |-> ref.end,
          result |-> st.result
                     \o ExcludeRanges(Slice(src, st.lastEnd, ref.start),
                                      st.lastEnd, c.allExcludeRanges)
                     \o (IF ref.index \in DOMAIN c.defs
                         THEN SidenoteHTML(Itoa(c.sidenoteNum[ref.index]),
                                           c.defs[ref.index].content)
                         ELSE Slice(src, ref.start, ref.end)),
          panic |-> FALSE]

\* "Write remaining content", "Renumber remaining link references", the
\* trailing newline
SideFinishOf(src, c, st, usageOrder, defOrder) ==
    LET remaining == ExcludeRanges(Slice(src, st.lastEnd, Len(src)),
                                   st.lastEnd, c.allExcludeRanges)
        renumbered == renumberLinkRefs(remaining, c.linkDefs, c.refsToRemove,
                                       usageOrder, defOrder)
    IN  [st EXCEPT !.result = st.result \o TrimRightNL(renumbered) \o <<NL>>]

RECURSIVE SideLoop(_, _, _, _)
SideLoop(src, c, k, st) ==
    IF k > Len(c.refs) \/ st.panic THEN st
    ELSE SideLoop(src, c, k + 1, SideStepOf(src, c, c.refs[k], st))

SideEnd(src, c, st, usageOrder, defOrder) ==
    IF st.panic THEN st ELSE SideFinishOf(src, c, st, usageOrder, defOrder)

SideRun(src, c, usageOrder, defOrder) ==
    SideEnd(src, c,
            SideLoop(src, c, 1, [lastEnd |-> 0, result |-> <<>>, panic |-> FALSE]),
            usageOrder, defOrder)

\* func transform(content string) string, as one step: [panic, result]
MdsidenoteTransform(src, usageOrder, defOrder) ==
    SideRun(src, SideCollected(src), usageOrder, defOrder)

----------------------------------------------------------------------------
(* cmd/mdinline: reference-style links to inline links.  Its               *)
(* findRefDefRanges and findLinkExtent are the ones of mdref, line for     *)
(* line.                                                                   *)

\* func isInlineLink(source string) bool
isInlineLink(linkSource) ==
    LET closeBracket == IndexAny(linkSource, {"]"}, 0, Len(linkSource))
    IN  /\ ~(closeBracket < 0 \/ closeBracket + 1 >= Len(linkSource))
        /\ At(linkSource, closeBracket + 1) = "("

\* the callback of ast.Walk for one node: the linkInfo appended, if any
InlineInfoOf(node, src, refDefRanges) ==
    LET info == LinkInfoOf(node, src, refDefRanges)
    IN  IF info = <<>> THEN <<>>
        ELSE IF isInlineLink(Slice(src, info[1].start, info[1].end)) THEN <<>>
        ELSE info

RECURSIVE WalkRefLinks(_, _, _, _)
WalkRefLinks(nodes, k, src, refDefRanges) ==
    IF k > Len(nodes) THEN <<>>
    ELSE InlineInfoOf(nodes[k], src, refDefRanges)
         \o WalkRefLinks(nodes, k + 1, src, refDefRanges)

\* the reference-style links collected from the AST, sorted by position
MdinlineLinks(src) ==
    SortByStart(WalkRefLinks(Parse(src, FALSE), 1, src, findRefDefRanges(src)))

\* fmt.Sprintf("[%s](%s %q)" | "[%s](%s)", link.text, link.url, link.title)
InlineToken(link) ==
    <<"[">> \o link.text \o <<"]", "(">> \o link.url
    \o (IF link.title # <<>> THEN <<" ">> \o Quote(link.title) ELSE <<>>)
    \o <<")">>

\* one iteration of 'for _, link := range links'; st = [lastEnd, result, panic]
MdinlineStep(src, excludeRanges, link, st) ==
    IF st.lastEnd > link.start
    THEN [st EXCEPT !.panic = TRUE]      \* source[lastEnd:link.start] is out of range
    ELSE [lastEnd |-> link.end,
          result |-> st.result
                     \o ExcludeRanges(Slice(src, st.lastEnd, link.start),
                                      st.lastEnd, excludeRanges)
                     \o InlineToken(link),
          panic |-> FALSE]

\* "Write remaining content, excluding reference definitions"
MdinlineFinish(src, excludeRanges, st) ==
    [st EXCEPT !.result =
        st.result
        \o TrimRightNL(ExcludeRanges(Slice(src, st.lastEnd, Len(src)),
                                     st.lastEnd, excludeRanges))
        \o <<NL>>]

RECURSIVE MdinlineLoop(_, _, _, _, _)
MdinlineLoop(src, excludeRanges, lks, k, st) ==
    IF k > Len(lks) \/ st.panic THEN st
    ELSE MdinlineLoop(src, excludeRanges, lks, k + 1,
                      MdinlineStep(src, excludeRanges, lks[k], st))

\* func transform(content string) string, as one step: [panic, result]
MdinlineEnd(src, ranges, st) ==
    IF st.panic THEN st ELSE MdinlineFinish(src, ranges, st)

MdinlineRun(src, ranges) ==
    MdinlineEnd(src, ranges,
                MdinlineLoop(src, ranges, MdinlineLinks(src), 1,
                             [lastEnd |-> 0, result |-> <<>>, panic |-> FALSE]))

MdinlineTransform(src) == MdinlineRun(src, findRefDefRanges(src))

----------------------------------------------------------------------------
(* cmd/mdfootnote: sidenote HTML back to footnotes.  For contents without  *)
(* a bare "<": every "<" is then the start of a tag, and the span content  *)
(* of sidenotePattern (text and tags, repeated) matches any stretch.       *)

\* the end of the run of digits starting at i: \d+
DigitsEnd(s, i) ==
    LET S == {j \in i..(Len(s) - 1) : At(s, j) \notin DigitSet}
    IN  IF S = {} THEN Len(s) ELSE Min(S)

\* fmt.Sscanf(numStr, "%d", &num) for a run of digits
RECURSIVE Atoi(_)
Atoi(ds) ==
    IF ds = <<>> THEN 0
    ELSE 10 * Atoi(SubSeq(ds, 1, Len(ds) - 1))
         + (CHOOSE d \in 0..9 : Digits[d + 1] = ds[Len(ds)])

\* one match of sidenotePattern that starts at p, or NoNode.  The span content
\* is greedy: it runs to the last "</span>" it can reach.
SidenoteAt(content, p) ==
    LET e1 == DigitsEnd(content, p + 2)
        e2 == DigitsEnd(content, e1 + 3)
        c0 == e2 + 3
        bare == IndexAny(content, {"<"}, c0, Len(content))
        limit == IF bare < 0 THEN Len(content) ELSE bare
        closes == {q \in c0..(limit - 1) : At(content, q) = SpanClose}
    IN  IF /\ e2 + 2 < Len(content)
           /\ At(content, p) = NL /\ At(content, p + 1) = LabelFor
           /\ e1 > p + 2 /\ At(content, e1) = LabelRest /\ At(content, e1 + 1) = NL
           /\ At(content, e1 + 2) = InputId
           /\ e2 > e1 + 3 /\ At(content, e2) = InputRest /\ At(content, e2 + 1) = NL
           /\ At(content, e2 + 2) = SpanSidenote
           /\ closes # {}
        THEN [kind |-> "sidenote", start |-> p, end |-> Max(closes) + 1,
              number |-> Atoi(Slice(content, p + 2, e1)),
              content |-> Slice(content, c0, Max(closes))]
        ELSE NoNode

\* sidenotePattern.FindAllStringSubmatchIndex(content, -1)
RECURSIVE SidenoteMatches(_, _)
SidenoteMatches(content, p) ==
    IF p >= Len(content) THEN <<>>
    ELSE LET m == SidenoteAt(content, p)
         IN  IF m = NoNode THEN SidenoteMatches(content, p + 1)
             ELSE <<m>> \o SidenoteMatches(content, m.end)

\* the HTML tags of this alphabet
TagAtoms == {AOpen, ATitle, AEnd, AClose, ImgOpen, ImgAlt, LabelFor, LabelRest,
             InputId, InputRest, SpanSidenote, SpanHidden, SpanClose}

\* the end of a run of text (no tag) starting at i: [^<]*
TextEnd(s, i) ==
    LET S == {j \in i..(Len(s) - 1) : At(s, j) \in TagAtoms \cup {"<"}}
    IN  IF S = {} THEN Len(s) ELSE Min(S)

\* hiddenSpanPattern.ReplaceAllString(htmlContent, "")
RECURSIVE RemoveHidden(_, _)
RemoveHidden(s, i) ==
    IF i >= Len(s) THEN <<>>
    ELSE IF /\ At(s, i) = SpanHidden
            /\ i + 1 < Len(s) /\ At(s, i + 1) \in {"(", ")"}
            /\ TextEnd(s, i + 2) < Len(s) /\ At(s, TextEnd(s, i + 2)) = SpanClose
         THEN RemoveHidden(s, TextEnd(s, i + 2) + 1)
    ELSE <<At(s, i)>> \o RemoveHidden(s, i + 1)

\* htmltomd.ConvertString (html-to-markdown, an external collaborator): an
\* anchor becomes an inline link, the text of other elements is kept, their
\* tags are dropped
RECURSIVE HtmlToMarkdown(_, _)
HtmlToMarkdown(s, i) ==
    IF i >= Len(s) THEN <<>>
    ELSE IF At(s, i) = AOpen
         THEN LET e == IndexAny(s, {AEnd}, i + 1, Len(s))
                  t == IndexAny(s, {ATitle}, i + 1, Len(s))
                  c == IndexAny(s, {AClose}, i + 1, Len(s))
              IN  IF e < 0 \/ c < e THEN HtmlToMarkdown(s, i + 1)
                  ELSE <<"[">> \o Slice(s, e + 1, c) \o <<"]", "(">>
                       \o (IF t >= 0 /\ t < e
                           THEN Slice(s, i + 1, t) \o <<" ", QUO>>
                                \o Slice(s, t + 1, e) \o <<QUO>>
                           ELSE Slice(s, i + 1, e))
                       \o <<")">> \o HtmlToMarkdown(s, c + 1)
    ELSE IF At(s, i) \in {LabelFor, InputId, ImgOpen}
         THEN LET e == IndexAny(s, {LabelRest, InputRest, AEnd}, i + 1, Len(s))
              IN  HtmlToMarkdown(s, IF e < 0 THEN Len(s) ELSE e + 1)
    ELSE IF At(s, i) \in TagAtoms THEN HtmlToMarkdown(s, i + 1)
    ELSE <<At(s, i)>> \o HtmlToMarkdown(s, i + 1)

\* "Convert sidenote content to markdown"
SidenoteMarkdown(spanContent) ==
    TrimSpace(HtmlToMarkdown(TrimSpace(RemoveHidden(spanContent, 0)), 0))

\* one iteration of 'for _, sn := range sidenotes';
\* st = [lastEnd, result, footnotes, panic]
MdfootnoteStep(content, sn, st) ==
    IF sn.number < 1
    THEN [st EXCEPT !.panic = TRUE]      \* footnotes[sn.number-1]: index out of range
    ELSE [lastEnd |-> sn.end,
          result |-> st.result \o Slice(content, st.lastEnd, sn.start)
                     \o <<"[", "^">> \o Itoa(sn.number) \o <<"]">>,
          footnotes |-> [i \in 1..Max({Len(st.footnotes), sn.number}) |->
                            IF i = sn.number THEN SidenoteMarkdown(sn.content)
                            ELSE IF i <= Len(st.footnotes) THEN st.footnotes[i]
                            ELSE <<>>],
          panic |-> FALSE]

\* fmt.Sprintf("\n[^%d]: %s", i+1, fn) for the footnotes that are not empty
RECURSIVE FootnoteLines(_, _)
FootnoteLines(footnotes, i) ==
    IF i > Len(footnotes) THEN <<>>
    ELSE (IF footnotes[i] # <<>>
          THEN <<NL, "[", "^">> \o Itoa(i) \o <<"]", ":", " ">> \o footnotes[i]
          ELSE <<>>)
         \o FootnoteLines(footnotes, i + 1)

\* "Write remaining content" and "Append footnote definitions"
MdfootnoteFinish(content, st) ==
    [st EXCEPT !.result =
        st.result \o TrimRightNL(Slice(content, st.lastEnd, Len(content)))
        \o <<NL>> \o FootnoteLines(st.footnotes, 1) \o <<NL>>]

RECURSIVE MdfootnoteLoop(_, _, _, _)
MdfootnoteLoop(content, sidenotes, k, st) ==
    IF k > Len(sidenotes) \/ st.panic THEN st
    ELSE MdfootnoteLoop(content, sidenotes, k + 1,
                        MdfootnoteStep(content, sidenotes[k], st))

\* func transform(content string) string, as one step: [panic, result]
MdfootnoteEnd(content, st) ==
    IF st.panic THEN st ELSE MdfootnoteFinish(content, st)

MdfootnoteRun(content, matches) ==
    IF Len(matches) = 0 THEN [panic |-> FALSE, result |-> content]
    ELSE MdfootnoteEnd(content,
             MdfootnoteLoop(content, SortByStart(matches), 1,
                            [lastEnd |-> 0, result |-> <<>>, footnotes |-> <<>>,
                             panic |-> FALSE]))

MdfootnoteTransform(content) == MdfootnoteRun(content, SidenoteMatches(content, 0))

----------------------------------------------------------------------------
(* Specification SpecEx: ExcludeRanges on a content window and a range     *)
(* list that is sorted ascending and pairwise non-overlapping.  The        *)
(* window's bytes are their own absolute offsets, so the result shows      *)
(* which bytes were kept.                                                  *)

MaxPos == 5
MaxRanges == 2

NoError == <<>>

\* cli.Run is not run
CliIdle ==
    /\ writeInPlace = FALSE /\ args = <<>> /\ files = <<>> /\ files0 = <<>>
    /\ stdin = <<>> /\ stdout = <<>> /\ cliI = 0 /\ readLog = <<>>
    /\ writeLog = <<>> /\ cliErr = NoError /\ cliPc = "idle"

\* mdwrap is not run
WrapIdle ==
    /\ wrapKind = "none" /\ wrapLines = <<>> /\ wrapWidth = 0 /\ wrapOut = <<>>
    /\ wrapPc = "idle"

\* no converter runs
SideIdle ==
    /\ fnRefs = <<>> /\ defs = <<>> /\ sidenoteNum = <<>> /\ linkDefs = <<>>
    /\ refsToRemove = {} /\ allExcludeRanges = <<>>

ConvIdle ==
    /\ tool = "none"
    /\ source = <<>> /\ pc = "idle" /\ pass = 0 /\ firstOut = <<>>
    /\ links = <<>> /\ li = 0
    /\ lastEnd = 0 /\ result = <<>> /\ urlToRef = <<>> /\ refs = <<>>
    /\ nums = <<>> /\ copied = <<>>
    /\ SideIdle

\* ExcludeRanges is not run on its own
ExIdle ==
    /\ exContent = <<>> /\ exStart = 0 /\ exRanges = <<>>
    /\ exI = 0 /\ exPos = 0 /\ exResult = <<>> /\ exPc = "idle"

AllRanges == {ByteRange(s, e) : s \in 0..MaxPos, e \in 0..MaxPos}

ValidRanges == {r \in AllRanges : r.Start <= r.End}

RangeLists(n) == UNION {[1..k -> ValidRanges] : k \in 0..n}

\* sorted ascending, pairwise non-overlapping
SortedDisjoint(rs) == \A i \in 1..(Len(rs) - 1) : rs[i].End <= rs[i + 1].Start

ExInit ==
    /\ exStart \in 0..MaxPos
    /\ \E n \in 0..MaxPos :
          /\ exStart + n <= MaxPos
          /\ exContent = Offsets(exStart, exStart + n)
    /\ exRanges \in {rs \in RangeLists(MaxRanges) : SortedDisjoint(rs)}
    /\ exI = 1
    /\ exPos = 0
    /\ exResult = <<>>
    /\ exPc = "loop"
    /\ ConvIdle
    /\ CliIdle
    /\ WrapIdle

\* one iteration of the loop
ExLoopStep ==
    /\ exPc = "loop"
    /\ exI <= Len(exRanges)
    /\ LET acc == ExcludeStep(exContent, exStart, exRanges[exI],
                              [pos |-> exPos, result |-> exResult])
       IN  /\ exPos' = acc.pos
           /\ exResult' = acc.result
    /\ exI' = exI + 1
    /\ UNCHANGED <<cliVars, wrapVars, exContent, exStart, exRanges, exPc, convVars>>

\* the write after the loop, and the return
ExReturn ==
    /\ exPc = "loop"
    /\ exI > Len(exRanges)
    /\ exResult' = ExcludeFinish(exContent, [pos |-> exPos, result |-> exResult])
    /\ exPc' = "done"
    /\ UNCHANGED <<cliVars, wrapVars, exContent, exStart, exRanges, exI, exPos, convVars>>

ExNext == ExLoopStep \/ ExReturn

SpecEx == ExInit /\ [][ExNext]_vars

\* the offsets of the window covered by no range
ExKept == {o \in exStart..(exStart + Len(exContent) - 1) :
              \A i \in 1..Len(exRanges) :
                  ~(exRanges[i].Start <= o /\ o < exRanges[i].End)}

\* C6: for a sorted, non-overlapping range list ExcludeRanges returns exactly
\* the bytes of the window whose absolute offset lies in no range, each once
\* and in their original order.
C6_ExcludeExact == exPc = "done" => exResult = AscSeq(ExKept)

\* C6's case: a run that finished with a range straddling the window's start,
\* a range wholly outside the window, and bytes both kept and dropped.
C6_Witness ==
    /\ exPc = "done"
    /\ \E i \in 1..Len(exRanges) :
          exRanges[i].Start < exStart /\ exRanges[i].End > exStart
    /\ \E i \in 1..Len(exRanges) : exRanges[i].Start >= exStart + Len(exContent)
    /\ exResult # <<>>
    /\ Len(exResult) < Len(exContent)

\* sorted ascending by Start only: ranges may overlap or nest, as the list
\* mdsidenote builds by appending link-definition ranges to footnote-definition
\* ranges and sorting the whole by Start
SortedByStart(rs) == \A i \in 1..(Len(rs) - 1) : rs[i].Start <= rs[i + 1].Start

\* ExcludeRanges called with any list sorted by Start
ExAnyInit ==
    /\ exStart \in 0..MaxPos
    /\ \E n \in 0..MaxPos :
          /\ exStart + n <= MaxPos
          /\ exContent = Offsets(exStart, exStart + n)
    /\ exRanges \in {rs \in RangeLists(MaxRanges) : SortedByStart(rs)}
    /\ exI = 1
    /\ exPos = 0
    /\ exResult = <<>>
    /\ exPc = "loop"
    /\ ConvIdle
    /\ CliIdle
    /\ WrapIdle

SpecExAny == ExAnyInit /\ [][ExNext]_vars

\* C28: for a range list sorted ascending by Start only, in which ranges may
\* overlap or nest, ExcludeRanges still removes every byte covered by at least
\* one range: the cursor pos never decreases and no byte of a range is
\* written to the result.
C28_ExcludeCovered ==
    /\ exPc = "loop" => \A i \in 1..Len(exResult) : exResult[i] - exStart < exPos
    /\ exPc = "done" => \A i \in 1..Len(exResult) : exResult[i] \in ExKept

----------------------------------------------------------------------------
(* Specification Spec: mdref's transform, run twice: on a document, then   *)
(* on its own output.  A document is a body of up to MaxPieces pieces and  *)
(* a tail.                                                                 *)

MaxPieces == 3

Word == <<"a">>
InlineU == <<"[", "a", "]", "(", "u", ")">>                        \* [a](u)
InlineUT == <<"[", "a", "]", "(", "u", " ", QUO, "T", QUO, ")">>   \* [a](u "T")
InlineV == <<"[", "b", "]", "(", "v", ")">>                        \* [b](v)
InlineTab == <<"[", "b", "]", "(", "u", " ", QUO, TAB, QUO, ")">>  \* [b](u "<tab>")
ImageU == <<"!", "[", "a", "]", "(", "u", ")">>                    \* ![a](u)
RefLink == <<"[", "a", "]", "[", "1", "]">>                        \* [a][1]
RefImage == <<"!", "[", "a", "]", "[", "1", "]">>                  \* ![a][1]
Shortcut == <<"[", "1", "]">>                                      \* [1]

Pieces == {Word, InlineU, InlineUT, InlineV, InlineTab, ImageU, RefLink,
           RefImage, Shortcut}

\* nothing, a newline, two newlines, a definition block for label 1
Tails == {<<>>, <<NL>>, <<NL, NL>>,
          <<NL, NL, "[", "1", "]", ":", " ", "v", NL>>}

RECURSIVE Flatten(_)
Flatten(ss) == IF ss = <<>> THEN <<>> ELSE Head(ss) \o Flatten(Tail(ss))

Bodies(P, n) == {Flatten(b) : b \in UNION {[1..k -> P] : k \in 0..n}}

RefDocs == {b \o t : b \in Bodies(Pieces, MaxPieces), t \in Tails}

LoopState ==
    [lastEnd |-> lastEnd, result |-> result, urlToRef |-> urlToRef,
     refs |-> refs, nums |-> nums, copied |-> copied, panic |-> FALSE]

SetLoopState(st) ==
    /\ lastEnd' = st.lastEnd
    /\ result' = st.result
    /\ urlToRef' = st.urlToRef
    /\ refs' = st.refs
    /\ nums' = st.nums
    /\ copied' = st.copied

ConvStart(t, docs) ==
    /\ tool = t
    /\ source \in docs
    /\ pc = "start" /\ pass = 1 /\ firstOut = <<>>
    /\ links = <<>> /\ li = 0
    /\ lastEnd = 0 /\ result = <<>> /\ urlToRef = <<>> /\ refs = <<>>
    /\ nums = <<>> /\ copied = <<>>
    /\ SideIdle
    /\ CliIdle
    /\ WrapIdle

Init == ExIdle /\ ConvStart("mdref", RefDocs)

\* parse, findRefDefRanges, ast.Walk, sort.Slice
RefCollect ==
    /\ tool = "mdref"
    /\ pc = "start"
    /\ links' = MdrefLinks(source)
    /\ li' = 1
    /\ SetLoopState(MdrefStart)
    /\ pc' = "loop"
    /\ UNCHANGED <<cliVars, wrapVars, tool, source, pass, firstOut, exVars, sideVars>>

\* one iteration of the assembly loop
RefStep ==
    /\ tool = "mdref"
    /\ pc = "loop"
    /\ li <= Len(links)
    /\ LET st == MdrefStep(source, findRefDefRanges(source), links[li], LoopState)
       IN  /\ SetLoopState(st)
           /\ pc' = IF st.panic THEN "panic" ELSE "loop"
    /\ li' = li + 1
    /\ UNCHANGED <<cliVars, wrapVars, tool, source, pass, firstOut, links, exVars, sideVars>>

\* the tail, the definition block, and the return
RefFinish ==
    /\ tool = "mdref"
    /\ pc = "loop"
    /\ li > Len(links)
    /\ SetLoopState(MdrefFinish(source, findRefDefRanges(source), LoopState))
    /\ pc' = "done"
    /\ UNCHANGED <<cliVars, wrapVars, tool, source, pass, firstOut, links, li, exVars, sideVars>>

\* the output of pass 1 becomes the input of pass 2
RefAgain ==
    /\ tool = "mdref"
    /\ pc = "done"
    /\ pass = 1
    /\ firstOut' = result
    /\ source' = result
    /\ pass' = 2
    /\ pc' = "start"
    /\ links' = <<>>
    /\ li' = 0
    /\ SetLoopState(MdrefStart)
    /\ UNCHANGED <<cliVars, wrapVars, tool, exVars, sideVars>>

Next == RefCollect \/ RefStep \/ RefFinish \/ RefAgain

Spec == Init /\ [][Next]_vars

----------------------------------------------------------------------------
(* Claims about mdref (specification Spec) *)

\* the lines of a text, each with its newline (the last one may lack it)
TextLines(s) ==
    LET spans == LineSpans(s)
    IN  [k \in 1..Len(spans) |->
            Slice(s, spans[k][1],
                  IF spans[k][2] < Len(s) THEN spans[k][2] + 1 ELSE spans[k][2])]

\* how many lines of text s are a definition line written for identity ref
DefLineCount(s, ref) ==
    LET ls == TextLines(s)
    IN  Cardinality({k \in 1..Len(ls) :
                        \E n \in 1..(Len(links) + 1) : ls[k] = DefLine(n, ref)})

Identity(link) == [url |-> link.url, title |-> link.title]

\* the numbers assigned so far
Assigned == {urlToRef[k] : k \in DOMAIN urlToRef}

\* the numbers of nums in the order in which each first appears
RECURSIVE FirstSeen(_, _)
FirstSeen(ns, seen) ==
    IF ns = <<>> THEN <<>>
    ELSE IF Head(ns) \in seen THEN FirstSeen(Tail(ns), seen)
    ELSE <<Head(ns)>> \o FirstSeen(Tail(ns), seen \cup {Head(ns)})

\* C1: transform(transform(x)) = transform(x), byte for byte.
C1_Idempotent ==
    (pass = 2 /\ pc \in {"done", "panic"}) => (pc = "done" /\ result = firstOut)

C4_DenseInOrder ==
    pc \in {"loop", "done"}
    => /\ Assigned = 1..Len(refs)
       /\ \A k1, k2 \in DOMAIN urlToRef : urlToRef[k1] = urlToRef[k2] => k1 = k2
       /\ \A i \in 1..Len(nums) :
             nums[i] = urlToRef[RefKey(links[i].url, links[i].title)]
       /\ \A i \in 1..(Len(links) - 1) : links[i].start < links[i + 1].start
       /\ FirstSeen(nums, {}) = [n \in 1..Len(refs) |-> n]

\* C4, in every step within one pass: a number once given is not changed.
C4_NeverReassigned ==
    pc' # "start"
    => /\ \A k \in DOMAIN urlToRef :
             k \in DOMAIN urlToRef' /\ urlToRef'[k] = urlToRef[k]
       /\ Len(nums') >= Len(nums)
       /\ \A i \in 1..Len(nums) : nums'[i] = nums[i]

\* C4: the numbering invariant and the step property together.
C4_Numbering == []C4_DenseInOrder /\ [][C4_NeverReassigned]_vars

\* C4's case: the loop has numbered three links with two identities, reusing
\* one number.
C4_Witness ==
    /\ pc = "loop"
    /\ Len(refs) = 2
    /\ Len(nums) = 3

CollectedNodes ==
    LET nodes == Parse(source, FALSE)
    IN  {nodes[k] : k \in {k \in 1..Len(nodes) :
            LinkInfoOf(nodes[k], source, findRefDefRanges(source)) # <<>>}}

\* the offsets of the lines that are reference definitions, for the parser
\* or for findRefDefRanges
DefLineOffsets ==
    LET spans == LineSpans(source)
        kinds == LineKinds(source, spans, 1, "none", FALSE)
        rs == findRefDefRanges(source)
    IN  {o \in 0..(Len(source) - 1) :
            \/ \E k \in 1..Len(spans) :
                  kinds[k] = "def" /\ spans[k][1] <= o /\ o <= spans[k][2]
            \/ \E j \in 1..Len(rs) : rs[j].Start <= o /\ o < rs[j].End}

\* the offsets outside every collected link construct and every definition line
OutsideOffsets ==
    {o \in 0..(Len(source) - 1) :
        /\ o \notin DefLineOffsets
        /\ \A n \in CollectedNodes : ~(n.start <= o /\ o < n.end)}

\* of those, the ones that are not newlines at the end of the remaining text
FrameOffsets ==
    {o \in OutsideOffsets :
        \E q \in OutsideOffsets : q >= o /\ At(source, q) # NL}

RECURSIVE TokensLen(_)
TokensLen(k) ==
    IF k > Len(nums) THEN 0
    ELSE Len(RefToken(links[k].text, nums[k])) + TokensLen(k + 1)

\* C7: every source byte outside the collected link constructs and the
\* reference-definition lines (trailing newlines apart) is copied to the
\* output exactly once and in order, and the output holds nothing else but
\* the [text][N] tokens, the closing newline and the definition block.
C7_Frame ==
    pc = "done"
    => /\ \A i, j \in 1..Len(copied) : i < j => copied[i] < copied[j]
       /\ FrameOffsets \subseteq {copied[i] : i \in 1..Len(copied)}
       /\ Len(result) = Len(copied) + TokensLen(1) + 1
                        + (IF Len(refs) > 0 THEN 1 + Len(DefBlock(refs, 1)) ELSE 0)

\* C8: with zero collected links the output is the input byte for byte, up
\* to the newlines at its end, of which exactly one is left; no definition
\* block is appended.
C8_NoLinksIdentity ==
    (pc = "done" /\ links = <<>>) => result = TrimRightNL(source) \o <<NL>>

\* the first occurrence that was given number n
FirstWith(n) == links[Min({i \in 1..Len(nums) : nums[i] = n})]

\* "[n]: url" without the newline
DefPrefix(n, url) == <<"[">> \o Itoa(n) \o <<"]", ":", " ">> \o url

\* line is the definition line of number n for identity (url, title): the
\* prefix alone when the title is empty, the prefix and a quoted title part
\* otherwise
IsDefLineFor(line, n, url, title) ==
    LET pre == DefPrefix(n, url)
    IN  IF title = <<>> THEN line = pre \o <<NL>>
        ELSE /\ Len(line) > Len(pre) + 4
             /\ SubSeq(line, 1, Len(pre) + 2) = pre \o <<" ", QUO>>
             /\ SubSeq(line, Len(line) - 1, Len(line)) = <<QUO, NL>>

C27_CursorForward ==
    [][(tool = "mdref" /\ pc = "loop")
       => (pc' # "panic" /\ lastEnd' >= lastEnd)]_vars

\* the link nodes of the source that findLinkExtent resolves
ResolvedLinks ==
    LET nodes == Parse(source, FALSE)
    IN  {nodes[k] : k \in {k \in 1..Len(nodes) :
                              /\ nodes[k].kind = "link"
                              /\ findLinkExtent(nodes[k], source)[1] >= 0}}

\* C23: once the links are collected, for every link node findLinkExtent
\* resolves the span it returns is the construct: it starts at the "[" of
\* the link, ends one past the construct's last byte, and holds no newline.
C23_ExtentIsConstruct ==
    pc \in {"loop", "done", "panic"}
    => \A n \in ResolvedLinks :
          LET ext == findLinkExtent(n, source)
          IN  /\ ext[1] = n.start
              /\ At(source, ext[1]) = "["
              /\ ext[2] = n.end
              /\ \A o \in ext[1]..(ext[2] - 1) : At(source, o) # NL

\* the reference-style images of document s, ![alt][label], as the parser
\* reports them: the converters copy them as literal text
RefImagesOf(s) ==
    LET nodes == Parse(s, FALSE)
    IN  {nodes[k] : k \in {k \in 1..Len(nodes) :
            nodes[k].kind = "image" /\ At(s, nodes[k].end - 1) = "]"}}

\* C29: when mdref returns, a reference-style construct that was left as
\* literal text (a reference-style image) still has a definition for its
\* label in the output, with the same destination: the construct of the
\* output resolves as the construct of the input did.
C29_LiteralKeepsDef ==
    (tool = "mdref" /\ pass = 1 /\ pc = "done")
    => \A n \in RefImagesOf(source) :
          \E m \in RefImagesOf(result) :
              /\ Slice(result, m.start, m.end) = Slice(source, n.start, n.end)
              /\ m.Destination = n.Destination

\* the inline images of the source, ![alt](url) or ![alt](url "title"), as
\* the parser reports them
InlineImages ==
    LET nodes == Parse(source, FALSE)
    IN  {nodes[k] : k \in {k \in 1..Len(nodes) :
            nodes[k].kind = "image" /\ At(source, nodes[k].end - 1) = ")"}}

\* C15: when mdref returns, every byte of every inline image of the input
\* was copied to the output, and no collected occurrence (the constructs
\* that are given a number and a definition line) overlaps an image.
C15_ImagesUntouched ==
    pc = "done"
    => \A n \in InlineImages :
          /\ \A o \in n.start..(n.end - 1) : \E i \in 1..Len(copied) : copied[i] = o
          /\ \A i \in 1..Len(links) :
                links[i].end <= n.start \/ links[i].start >= n.end

----------------------------------------------------------------------------
(* Specification SpecSide: mdsidenote's transform, run twice: on a         *)
(* document, then on its own output.  A document is an optional leading    *)
(* link definition, a body of up to MaxSidePieces pieces, footnote         *)
(* definitions and link definitions, each block behind a blank line.       *)

MaxSidePieces == 2

FnRef1 == <<"[", "^", "1", "]">>                                   \* [^1]
FnRef2 == <<"[", "^", "2", "]">>                                   \* [^2]
LinkRef1 == <<"[", "a", "]", "[", "1", "]">>                       \* [a][1]
LinkRef2 == <<"[", "a", "]", "[", "2", "]">>                       \* [a][2]

SidePieces == {Word, FnRef1, FnRef2, LinkRef1, LinkRef2}

FnDef1 == <<"[", "^", "1", "]", ":", " ", "n">>                    \* [^1]: n
FnDef2 == <<"[", "^", "2", "]", ":", " ", "[", "b", "]", "[", "2", "]">>  \* [^2]: [b][2]
LinkDef1 == <<"[", "1", "]", ":", " ", "u">>                       \* [1]: u
LinkDef2 == <<"[", "2", "]", ":", " ", "v">>                       \* [2]: v

SideHeads == {<<>>, <<"[", "2", "]", ":", " ", "u", NL, NL>>}

FnDefLists == {<<>>, <<FnDef1>>, <<FnDef2>>, <<FnDef1, FnDef2>>}

LinkDefLists == {<<>>, <<LinkDef1>>, <<LinkDef2>>, <<LinkDef1, LinkDef2>>,
                 <<LinkDef2, LinkDef1>>}

\* every footnote definition behind a blank line
RECURSIVE FnDefBlocks(_)
FnDefBlocks(fs) ==
    IF fs = <<>> THEN <<>> ELSE <<NL, NL>> \o Head(fs) \o FnDefBlocks(Tail(fs))

\* the link definitions on consecutive lines, behind a blank line
RECURSIVE LinkDefLines(_)
LinkDefLines(ls) ==
    IF ls = <<>> THEN <<>> ELSE <<NL>> \o Head(ls) \o LinkDefLines(Tail(ls))

LinkDefBlock(ls) == IF ls = <<>> THEN <<>> ELSE <<NL>> \o LinkDefLines(ls)

SideDocs ==
    {h \o b \o FnDefBlocks(fs) \o LinkDefBlock(ls) \o e :
        h \in SideHeads, b \in Bodies(SidePieces, MaxSidePieces),
        fs \in FnDefLists, ls \in LinkDefLists, e \in {<<>>, <<NL>>}}

SideInit == ExIdle /\ ConvStart("mdsidenote", SideDocs)

\* what the walk, the sort and the maps hold, as transform's locals
SideLocals ==
    [refs |-> fnRefs, defs |-> defs, sidenoteNum |-> sidenoteNum,
     linkDefs |-> linkDefs, refsToRemove |-> refsToRemove,
     allExcludeRanges |-> allExcludeRanges]

SetSideLocals(c) ==
    /\ fnRefs' = c.refs
    /\ defs' = c.defs
    /\ sidenoteNum' = c.sidenoteNum
    /\ linkDefs' = c.linkDefs
    /\ refsToRemove' = c.refsToRemove
    /\ allExcludeRanges' = c.allExcludeRanges

\* parse, collectLinkDefs, ast.Walk, the sorts and the maps
SideCollect ==
    /\ tool = "mdsidenote"
    /\ pc = "start"
    /\ SetSideLocals(SideCollected(source))
    /\ li' = 1
    /\ lastEnd' = 0
    /\ result' = <<>>
    /\ pc' = "loop"
    /\ UNCHANGED <<cliVars, wrapVars, tool, source, pass, firstOut, links, urlToRef, refs, nums,
                   copied, exVars>>

SetSideState(st) ==
    /\ lastEnd' = st.lastEnd
    /\ result' = st.result
    /\ pc' = IF st.panic THEN "panic" ELSE "loop"

\* one iteration of the assembly loop
SideStep ==
    /\ tool = "mdsidenote"
    /\ pc = "loop"
    /\ li <= Len(fnRefs)
    /\ SetSideState(SideStepOf(source, SideLocals, fnRefs[li],
                               [lastEnd |-> lastEnd, result |-> result,
                                panic |-> FALSE]))
    /\ li' = li + 1
    /\ UNCHANGED <<cliVars, wrapVars, tool, source, pass, firstOut, links, urlToRef, refs, nums,
                   copied, exVars, sideVars>>

\* the tail, renumberLinkRefs (its two loops range over a map, in any order)
\* and the return
SideFinish ==
    /\ tool = "mdsidenote"
    /\ pc = "loop"
    /\ li > Len(fnRefs)
    /\ \E usageOrder, defOrder \in MapOrders(RenumberChanged(linkDefs, refsToRemove)) :
          result' = SideFinishOf(source, SideLocals,
                                 [lastEnd |-> lastEnd, result |-> result,
                                  panic |-> FALSE],
                                 usageOrder, defOrder).result
    /\ pc' = "done"
    /\ UNCHANGED <<cliVars, wrapVars, tool, source, pass, firstOut, links, li, lastEnd, urlToRef,
                   refs, nums, copied, exVars, sideVars>>

\* the output of pass 1 becomes the input of pass 2
SideAgain ==
    /\ tool = "mdsidenote"
    /\ pc = "done"
    /\ pass = 1
    /\ firstOut' = result
    /\ source' = result
    /\ pass' = 2
    /\ pc' = "start"
    /\ li' = 0
    /\ lastEnd' = 0
    /\ result' = <<>>
    /\ fnRefs' = <<>> /\ defs' = <<>> /\ sidenoteNum' = <<>> /\ linkDefs' = <<>>
    /\ refsToRemove' = {} /\ allExcludeRanges' = <<>>
    /\ UNCHANGED <<cliVars, wrapVars, tool, links, urlToRef, refs, nums, copied, exVars>>

SideNext == SideCollect \/ SideStep \/ SideFinish \/ SideAgain

SpecSide == SideInit /\ [][SideNext]_vars

\* C2: mdsidenote's transform(transform(x)) = transform(x), byte for byte,
\* whatever order its maps are visited in.
C2_SideIdempotent ==
    (tool = "mdsidenote" /\ pass = 2 /\ pc \in {"done", "panic"})
    => (pc = "done" /\ result = firstOut)

\* C9: for a document without footnote references mdsidenote's output is the
\* input byte for byte, up to the newlines at its end, of which exactly one
\* is left.
C9_NoFootnotesIdentity ==
    (tool = "mdsidenote" /\ pc = "done" /\ ParseFootnotes(source).links = <<>>)
    => result = TrimRightNL(source) \o <<NL>>

\* the footnote references of the source as the parser reports them, in
\* ascending position: [Index, start, end], Index the rank of the footnote
\* by first reference
SideOccurrences == ParseFootnotes(source).links

\* the definitions of the referenced footnotes, as the parser reports them
SideFootnoteBlocks ==
    LET blocks == FootnoteBlocks(source)
        fs == ParseFootnotes(source).footnotes
    IN  {FootnoteBlockOf(blocks, fs[n].Ref) : n \in 1..Len(fs)}

\* C12: the references the loop replaces are the footnote references of the
\* source, taken in ascending position; each is given the number of its
\* footnote by first appearance and has a definition to render; the bytes
\* of every such definition are in an excluded range; and transform gets
\* through the loop.
C12_SidenoteNumbers ==
    (tool = "mdsidenote" /\ pass = 1 /\ pc \in {"loop", "done", "panic"})
    => /\ pc # "panic"
       /\ Len(fnRefs) = Len(SideOccurrences)
       /\ \A k \in 1..Len(fnRefs) :
             /\ fnRefs[k].start = SideOccurrences[k].start
             /\ fnRefs[k].end = SideOccurrences[k].end
             /\ fnRefs[k].index \in DOMAIN defs
             /\ sidenoteNum[fnRefs[k].index] = SideOccurrences[k].Index
       /\ \A b \in SideFootnoteBlocks : \A o \in b.Start..(b.Stop - 1) :
             \E j \in 1..Len(allExcludeRanges) :
                 allExcludeRanges[j].Start <= o /\ o < allExcludeRanges[j].End

\* the destinations of the links of the body text of s, in order, as the
\* parser resolves them
BodyLinkUrls(s) ==
    LET nodes == Parse(s, TRUE)
        ks == AscSeq({k \in 1..Len(nodes) : nodes[k].kind = "link"})
    IN  [j \in 1..Len(ks) |-> nodes[ks[j]].Destination]

\* C26: when mdsidenote returns, the links of the body text of its output
\* are the links of the body text of its input, each resolving to the
\* destination it had: no definition a body link needs was removed, and
\* the renumbering renamed usages and definitions alike.
C26_LinksResolve ==
    (tool = "mdsidenote" /\ pass = 1 /\ pc = "done")
    => BodyLinkUrls(result) = BodyLinkUrls(source)

\* C24: for every footnote reference the parser reports,
\* findFootnoteRefExtent(Index, source) is the span of that reference, so
\* two reported references never get the same span.
C24_RefExtent ==
    (tool = "mdsidenote" /\ pass = 1 /\ pc \in {"loop", "done", "panic"})
    => \A k \in 1..Len(SideOccurrences) :
          findFootnoteRefExtent(SideOccurrences[k].Index, source)
              = <<SideOccurrences[k].start, SideOccurrences[k].end>>

\* the starts of the footnote reference tokens of the source for which the
\* parser reports no footnote reference: their label has no definition
UndefinedRefStarts ==
    {i \in FootnoteRefStarts(source) :
        \A k \in 1..Len(SideOccurrences) : SideOccurrences[k].start # i}

\* the numbers of the sidenote blocks of s, in ascending position
SidenoteIdsOf(s) ==
    LET ps == AscSeq({p \in 0..(Len(s) - 1) : At(s, p) = LabelFor})
    IN  [k \in 1..Len(ps) |-> Atoi(Slice(s, ps[k] + 1, DigitsEnd(s, ps[k] + 1)))]

\* C19: in a document with a footnote reference that has no definition,
\* mdsidenote returns; the bytes of that reference are in the output and lie
\* in no excluded range, and the sidenote blocks of the output are numbered
\* from 1 on, each new number one more than the largest before it.
C19_UndefinedKept ==
    (tool = "mdsidenote" /\ pass = 1 /\ pc \in {"done", "panic"}
     /\ UndefinedRefStarts # {})
    => /\ pc = "done"
       /\ \A i \in UndefinedRefStarts :
             /\ Index(result, Slice(source, i, FootnoteRefClose(source, i) + 1)) >= 0
             /\ \A j \in 1..Len(allExcludeRanges) :
                   ~(allExcludeRanges[j].Start <= i /\ i < allExcludeRanges[j].End)
       /\ LET ids == SidenoteIdsOf(result)
          IN  \A k \in 1..Len(ids) :
                 ids[k] >= 1 /\ ids[k] <= 1 + Max({0} \cup {ids[j] : j \in 1..(k - 1)})

\* what transform returns from the end of the loop when the two loops of
\* renumberLinkRefs visit the map in the orders usageOrder and defOrder
SideOutput(usageOrder, defOrder) ==
    SideFinishOf(source, SideLocals,
                 [lastEnd |-> lastEnd, result |-> result, panic |-> FALSE],
                 usageOrder, defOrder).result

\* C16: any two executions of mdsidenote's transform on one document return
\* the same output: at the end of the loop, the output does not depend on
\* the order in which the renumbering map is visited.
C16_Deterministic ==
    (tool = "mdsidenote" /\ pc = "loop" /\ li > Len(fnRefs))
    => \A u1, d1, u2, d2 \in MapOrders(RenumberChanged(linkDefs, refsToRemove)) :
          SideOutput(u1, d1) = SideOutput(u2, d2)

----------------------------------------------------------------------------
(* Specification SpecOut: one run of each converter's transform, as one    *)
(* step, on the documents of its kind.                                     *)

MaxFootPieces == 2

\* a sidenote block as mdsidenote writes it, with the id num
SidenoteBlocks ==
    {SidenoteHTML(<<num>>, content) :
        num \in {"0", "1", "2"}, content \in {<<>>, <<"n">>}}

FootDocs ==
    {b \o t : b \in Bodies({Word} \cup SidenoteBlocks, MaxFootPieces),
              t \in {<<>>, <<NL>>, <<NL, NL>>}}

Tools == {"mdref", "mdinline", "mdsidenote", "mdfootnote"}

DocsOf(t) ==
    IF t = "mdsidenote" THEN SideDocs
    ELSE IF t = "mdfootnote" THEN FootDocs
    ELSE RefDocs

OutInit == ExIdle /\ \E t \in Tools : ConvStart(t, DocsOf(t))

\* transform returned out = [panic, result]
Returned(out) ==
    /\ result' = IF out.panic THEN <<>> ELSE out.result
    /\ pc' = IF out.panic THEN "panic" ELSE "done"
    /\ UNCHANGED <<cliVars, wrapVars, tool, source, pass, firstOut, links, li, lastEnd, urlToRef,
                   refs, nums, copied, exVars, sideVars>>

RunMdref ==
    /\ tool = "mdref" /\ pc = "start"
    /\ Returned(MdrefTransform(source))

RunMdinline ==
    /\ tool = "mdinline" /\ pc = "start"
    /\ Returned(MdinlineTransform(source))

RunSide(c) ==
    \E usageOrder, defOrder \in MapOrders(RenumberChanged(c.linkDefs, c.refsToRemove)) :
        Returned(SideRun(source, c, usageOrder, defOrder))

RunMdsidenote ==
    /\ tool = "mdsidenote" /\ pc = "start"
    /\ RunSide(SideCollected(source))

RunMdfootnote ==
    /\ tool = "mdfootnote" /\ pc = "start"
    /\ Returned(MdfootnoteTransform(source))

OutNext == RunMdref \/ RunMdinline \/ RunMdsidenote \/ RunMdfootnote

SpecOut == OutInit /\ [][OutNext]_vars

\* C10: the output of each converter's transform is not empty, its last byte
\* is a newline and the byte before that is not.
C10_OneTrailingNewline ==
    pc = "done"
    => /\ result # <<>>
       /\ result[Len(result)] = NL
       /\ Len(result) > 1 => result[Len(result) - 1] # NL

\* the offsets at which a sidenote block starts: the newline before a label tag
SidenoteStarts(s) ==
    {p \in 0..(Len(s) - 2) : At(s, p) = NL /\ At(s, p + 1) = LabelFor}

\* the numbers of the "[^N]" tokens of s in ascending position, those followed
\* by ":" (definitions) or those not followed by it (references)
FootTokens(s, isDef) ==
    LET ends(p) == DigitsEnd(s, p + 2)
        ps == AscSeq({p \in 0..(Len(s) - 4) :
                  /\ At(s, p) = "[" /\ At(s, p + 1) = "^"
                  /\ ends(p) > p + 2 /\ At(s, ends(p)) = "]"
                  /\ (At(s, ends(p) + 1) = ":") = isDef})
    IN  [k \in 1..Len(ps) |-> Atoi(Slice(s, ps[k] + 2, ends(ps[k])))]

\* C13: mdfootnote returns, and the footnote references of its output are
\* numbered 1, 2, ..., n for the n sidenote blocks of the input in order of
\* appearance, whatever ids the blocks carried; the definition lines of the
\* output are in ascending order, at most one per number of 1..n.
C13_FootnoteNumbers ==
    (tool = "mdfootnote" /\ pc \in {"done", "panic"} /\ SidenoteStarts(source) # {})
    => LET n == Cardinality(SidenoteStarts(source))
           rs == FootTokens(result, FALSE)
           ds == FootTokens(result, TRUE)
       IN  /\ pc = "done"
           /\ rs = [k \in 1..n |-> k]
           /\ \A k \in 1..Len(ds) : ds[k] \in 1..n
           /\ \A j, k \in 1..Len(ds) : j < k => ds[j] < ds[k]

\* C25: a document with k sidenote blocks gives k matches of the sidenote
\* pattern, the j-th starting at the newline before the j-th label tag and
\* ending before the next block starts; and when mdfootnote returns, its
\* output holds k footnote reference markers.
C25_OneMatchPerBlock ==
    (tool = "mdfootnote" /\ pc \in {"done", "panic"})
    => LET starts == AscSeq(SidenoteStarts(source))
           matches == SidenoteMatches(source, 0)
       IN  /\ Len(matches) = Len(starts)
           /\ \A j \in 1..Len(matches) :
                 /\ matches[j].start = starts[j]
                 /\ j < Len(starts) => matches[j].end <= starts[j + 1]
           /\ (pc = "done" /\ Len(starts) > 0)
              => Len(FootTokens(result, FALSE)) = Len(starts)

\* C17: mdfootnote's transform returns an output for every input the
\* sidenote pattern matches, the id 0, repeated ids and ids beyond the
\* number of blocks included: it never stops on an index out of range.
C17_FootnoteNeverFaults ==
    (tool = "mdfootnote" /\ pc # "start") => pc = "done"

----------------------------------------------------------------------------
(* Specification SpecCode: one run of mdref's or mdinline's transform on a *)
(* document of up to MaxCodeLines lines, among them code fences, indented  *)
(* lines and code spans.                                                   *)

MaxCodeLines == 4

FenceLine == <<TICK, TICK, TICK>>
DefLine1 == <<"[", "1", "]", ":", " ", "v">>                       \* [1]: v
Indented == <<" ", " ", " ", " ">>
CodeSpanU == <<TICK>> \o InlineU \o <<TICK>>                       \* a code span holding [a](u)
LinkWithCode == <<"[", "x", TICK, "e", TICK, "y", "]", "(", "u", ")">>
LinkOfCode == <<"[", TICK, "e", TICK, "]", "(", "u", ")">>
EmptyLink == <<"[", "]", "(", "u", ")">>                           \* [](u)
ShortcutCode == <<"[", "1", "]", " ">> \o LinkOfCode              \* a shortcut reference, then a link of code

CodeLines == {<<>>, InlineU, RefLink, FenceLine, DefLine1, Indented \o InlineU,
              Indented \o DefLine1, CodeSpanU, LinkWithCode, LinkOfCode,
              EmptyLink \o <<" ">> \o RefLink, ShortcutCode}

\* the lines, each with its newline
RECURSIVE JoinLines(_)
JoinLines(ls) == IF ls = <<>> THEN <<>> ELSE Head(ls) \o <<NL>> \o JoinLines(Tail(ls))

CodeDocs == {JoinLines(ls) : ls \in UNION {[1..k -> CodeLines] : k \in 1..MaxCodeLines}}

CodeInit == ExIdle /\ \E t \in {"mdref", "mdinline"} : ConvStart(t, CodeDocs)

CodeNext == RunMdref \/ RunMdinline

SpecCode == CodeInit /\ [][CodeNext]_vars

\* the code spans of the line part [i, to): <<start, end>> with the TICKs
RECURSIVE CodeSpansIn(_, _, _)
CodeSpansIn(s, i, to) ==
    IF i >= to THEN {}
    ELSE IF At(s, i) # TICK THEN CodeSpansIn(s, i + 1, to)
    ELSE LET r == TickRunEnd(s, i, to)
             e == CodeSpanEnd(s, r, to, r - i)
         IN  IF e < 0 THEN CodeSpansIn(s, r, to)
             ELSE {<<i, e>>} \cup CodeSpansIn(s, e, to)

\* the byte ranges of the source that are code: the fenced and the indented
\* code blocks (maximal runs of their lines) and the code spans of the
\* paragraph lines
CodeRegions ==
    LET spans == LineSpans(source)
        kinds == LineKinds(source, spans, 1, "none", FALSE)
        isCode(k) == k \in 1..Len(spans) /\ kinds[k] \in {"fence", "code", "icode"}
        runs == {r \in (1..Len(spans)) \X (1..Len(spans)) :
                    /\ r[1] <= r[2]
                    /\ \A k \in r[1]..r[2] : isCode(k)
                    /\ ~isCode(r[1] - 1) /\ ~isCode(r[2] + 1)}
    IN  {<<spans[r[1]][1], spans[r[2]][2]>> : r \in runs}
        \cup UNION {CodeSpansIn(source, spans[k][1], spans[k][2]) :
                       k \in {k \in 1..Len(spans) : kinds[k] = "para"}}

\* C14: when mdref or mdinline returns, every code region of the input (a
\* fenced or indented code block, a code span) is in the output byte for
\* byte (newlines at the end of the region apart): nothing in it was
\* rewritten and no line of it was removed.
C14_CodeUntouched ==
    (tool \in {"mdref", "mdinline"} /\ pc = "done")
    => \A r \in CodeRegions :
          Index(result, TrimRightNL(Slice(source, r[1], r[2]))) >= 0

\* the occurrence list the running converter collects from the document
Occurrences == IF tool = "mdref" THEN MdrefLinks(source) ELSE MdinlineLinks(source)

\* C30: the link text mdref and mdinline put in a replacement token is byte
\* for byte the source between the "[" that opens the construct and the "]"
\* that closes its text: markup inside the text (a code span) is carried
\* over unchanged.
C30_TextVerbatim ==
    (tool \in {"mdref", "mdinline"} /\ pc = "done")
    => \A i \in 1..Len(Occurrences) :
          LET a == Occurrences[i].start + 1
              c == a + Len(Occurrences[i].text)
          IN  /\ Slice(source, a, c) = Occurrences[i].text
              /\ At(source, c) = "]"

\* the link nodes of the document that findLinkExtent cannot resolve
UnresolvedLinks ==
    LET nodes == Parse(source, FALSE)
    IN  {nodes[k] : k \in {k \in 1..Len(nodes) :
                              /\ nodes[k].kind = "link"
                              /\ findLinkExtent(nodes[k], source)[1] < 0}}

\* C18: when mdref or mdinline returns, a link node that findLinkExtent could
\* not resolve is no entry of the occurrence list, and the bytes of the
\* construct are in the output as they were in the input.
C18_UnresolvedKept ==
    (tool \in {"mdref", "mdinline"} /\ pc = "done")
    => \A n \in UnresolvedLinks :
          /\ \A i \in 1..Len(Occurrences) : Occurrences[i].start # n.start
          /\ Index(result, Slice(source, n.start, n.end)) >= 0

\* the document has a link, every link and image of it is written inline,
\* [text](url) or [text](url "title"), and it defines no reference
AllLinksInline ==
    LET nodes == Parse(source, FALSE)
    IN  /\ \E k \in 1..Len(nodes) : nodes[k].kind = "link"
        /\ \A k \in 1..Len(nodes) : At(source, nodes[k].end - 1) = ")"
        /\ References(source, FALSE) = <<>>

\* the text ends in exactly one newline
EndsInOneNewline(s) ==
    /\ Len(s) >= 2
    /\ s[Len(s)] = NL
    /\ s[Len(s) - 1] # NL

\* C20: for a document whose links are all inline already, mdinline collects
\* no link and returns; if the document ends in exactly one newline, the
\* output is the document, byte for byte.
C20_InlineUnchanged ==
    (tool = "mdinline" /\ pc \in {"done", "panic"} /\ AllLinksInline)
    => /\ pc = "done"
       /\ MdinlineLinks(source) = <<>>
       /\ EndsInOneNewline(source) => result = source

----------------------------------------------------------------------------
(* internal/cli: Run and processFile.  Specification SpecCli: one call of   *)
(* Run for mdref, on a file system of the paths Paths, with up to MaxArgs  *)
(* file arguments.                                                         *)

MaxArgs == 3

Paths == {"f", "g"}

\* the transform handed to Run: mdref's, [panic, result]
CliTransform(content) == MdrefTransform(content)

\* (a slip: the result is written whether or not it differs)
WriteAlways(fs, path, out) ==
    LET data == fs[path].data
        w == [path |-> path, old |-> data, new |-> out.result, ok |-> fs[path].writable]
    IN  IF out.panic
        THEN [fs |-> fs, err |-> NoError, panic |-> TRUE, write |-> <<>>]
        ELSE IF fs[path].writable
        THEN [fs |-> [fs EXCEPT ![path].data = out.result], err |-> NoError,
              panic |-> FALSE, write |-> <<w>>]
        ELSE [fs |-> fs, err |-> <<"permission denied">>, panic |-> FALSE,
              write |-> <<w>>]

\* processFile behind os.ReadFile: "Only write if content changed", then
\* os.WriteFile; out is transform(string(data))
WriteIfChanged(fs, path, out) ==
    LET data == fs[path].data
        w == [path |-> path, old |-> data, new |-> out.result, ok |-> fs[path].writable]
    IN  IF out.panic
        THEN [fs |-> fs, err |-> NoError, panic |-> TRUE, write |-> <<>>]
        ELSE IF out.result = data
        THEN [fs |-> fs, err |-> NoError, panic |-> FALSE, write |-> <<>>]
        ELSE IF fs[path].writable
        THEN [fs |-> [fs EXCEPT ![path].data = out.result], err |-> NoError,
              panic |-> FALSE, write |-> <<w>>]
        ELSE [fs |-> fs, err |-> <<"permission denied">>, panic |-> FALSE,
              write |-> <<w>>]

\* func processFile(path string, transform TransformFunc) error, on the file
\* system fs: [fs, err, panic, write]
processFile(fs, path) ==
    IF ~fs[path].exists
    THEN [fs |-> fs, err |-> <<"no such file">>, panic |-> FALSE, write |-> <<>>]
    ELSE WriteIfChanged(fs, path, CliTransform(fs[path].data))

\* a document mdref returns as it is, two it changes, one it stops on
CliDocs == {<<"a", NL>>, <<"a">>, InlineU \o <<NL>>,
            Shortcut \o <<"a">> \o RefLink \o <<NL, NL, "[", "1", "]", ":", " ", "u", NL>>}

NoFile == [exists |-> FALSE, writable |-> FALSE, data |-> <<>>]

FileStates ==
    {NoFile} \cup {[exists |-> TRUE, writable |-> w, data |-> d] :
                      w \in BOOLEAN, d \in CliDocs}

CliInit ==
    /\ ExIdle /\ ConvIdle /\ WrapIdle
    /\ writeInPlace \in BOOLEAN
    /\ args \in UNION {[1..k -> Paths] : k \in 0..MaxArgs}
    /\ files \in [Paths -> FileStates]
    /\ files0 = files
    /\ stdin \in CliDocs
    /\ stdout = <<>> /\ cliI = 0 /\ readLog = <<>> /\ writeLog = <<>>
    /\ cliErr = NoError /\ cliPc = "start"

\* "-w requires at least one file argument"
CliNoFiles ==
    /\ cliPc = "start" /\ writeInPlace /\ Len(args) = 0
    /\ cliErr' = <<"-w requires at least one file argument">>
    /\ cliPc' = "returned"
    /\ UNCHANGED <<writeInPlace, args, files, files0, stdin, stdout, cliI, readLog,
                   writeLog, exVars, convVars, wrapVars>>

\* -w with file arguments: the loop over args begins
CliEnter ==
    /\ cliPc = "start" /\ writeInPlace /\ Len(args) > 0
    /\ cliI' = 1
    /\ cliPc' = "files"
    /\ UNCHANGED <<writeInPlace, args, files, files0, stdin, stdout, readLog,
                   writeLog, cliErr, exVars, convVars, wrapVars>>

\* the assignments of one iteration, from processFile's outcome r
SetFileOutcome(path, r) ==
    /\ files' = r.fs
    /\ readLog' = Append(readLog, path)
    /\ writeLog' = writeLog \o r.write
    /\ cliErr' = IF r.err # NoError THEN <<path>> \o r.err ELSE NoError
    /\ cliPc' = IF r.panic THEN "panic"
                ELSE IF r.err # NoError THEN "returned" ELSE "files"

\* one iteration of 'for _, path := range args'
CliFile ==
    /\ cliPc = "files" /\ cliI <= Len(args)
    /\ SetFileOutcome(args[cliI], processFile(files, args[cliI]))
    /\ cliI' = cliI + 1
    /\ UNCHANGED <<writeInPlace, args, files0, stdin, stdout, exVars, convVars, wrapVars>>

\* 'return nil' behind the loop
CliReturn ==
    /\ cliPc = "files" /\ cliI > Len(args)
    /\ cliPc' = "returned"
    /\ UNCHANGED <<writeInPlace, args, files, files0, stdin, stdout, cliI, readLog,
                   writeLog, cliErr, exVars, convVars, wrapVars>>

\* the output of the default mode, from the transform's outcome out
SetStdout(out) ==
    /\ stdout' = IF out.panic THEN <<>> ELSE out.result
    /\ cliPc' = IF out.panic THEN "panic" ELSE "returned"

\* "Default: read from files or stdin, write to stdout"
CliStdout ==
    /\ cliPc = "start" /\ ~writeInPlace
    /\ IF Len(args) > 0 /\ ~files[args[1]].exists
       THEN /\ cliErr' = <<"no such file">>
            /\ cliPc' = "returned"
            /\ UNCHANGED <<stdout, readLog>>
       ELSE /\ SetStdout(CliTransform(IF Len(args) = 0 THEN stdin
                                       ELSE files[args[1]].data))
            /\ readLog' = IF Len(args) = 0 THEN <<>> ELSE <<args[1]>>
            /\ UNCHANGED cliErr
    /\ UNCHANGED <<writeInPlace, args, files, files0, stdin, cliI, writeLog,
                   exVars, convVars, wrapVars>>

CliNext == CliNoFiles \/ CliEnter \/ CliFile \/ CliReturn \/ CliStdout

SpecCli == CliInit /\ [][CliNext]_vars

\* the paths read so far
ReadPaths == {readLog[i] : i \in 1..Len(readLog)}

\* how often path p is among the first n arguments
TimesIn(p, n) == Cardinality({i \in 1..n : args[i] = p})

\* C21: during and after a call of Run with -w: the files read are the
\* arguments in their order, up to the first one that fails; a write
\* happens only for a result that differs from the contents read, and puts
\* that result into the file; a file not read yet is as it was; when Run
\* returns without error every argument was read and holds the transform of
\* what it held; an error names the last file read; without arguments Run
\* returns an error and has read and written nothing.
C21_WriteInPlace ==
    (cliPc # "idle" /\ writeInPlace)
    => /\ Len(readLog) <= Len(args)
       /\ readLog = SubSeq(args, 1, Len(readLog))
       /\ stdout = <<>>
       /\ \A i \in 1..Len(writeLog) :
             /\ writeLog[i].new # writeLog[i].old
             /\ writeLog[i].new = CliTransform(writeLog[i].old).result
             /\ writeLog[i].path \in ReadPaths
       /\ \A p \in Paths :
             /\ p \notin ReadPaths => files[p] = files0[p]
             /\ (TimesIn(p, Len(readLog)) = 1 /\ cliErr = NoError /\ cliPc # "panic")
                => files[p].data = CliTransform(files0[p].data).result
       /\ \A i \in 1..(Len(writeLog) - 1) : writeLog[i].ok
       /\ (cliPc = "returned" /\ cliErr = NoError)
          => (Len(args) >= 1 /\ readLog = args /\ \A i \in 1..Len(writeLog) : writeLog[i].ok)
       /\ (cliPc = "returned" /\ cliErr # NoError /\ Len(args) >= 1)
          => (Len(readLog) >= 1 /\ cliErr[1] = readLog[Len(readLog)])
       /\ (cliPc = "returned" /\ Len(args) = 0)
          => (cliErr # NoError /\ readLog = <<>> /\ writeLog = <<>> /\ files = files0)

\* C21's case: Run with -w and three arguments has rewritten a file, left
\* one as it was without writing it, and stopped at a file that failed
\* before the last argument.
C21_Witness ==
    /\ cliPc = "returned" /\ writeInPlace
    /\ Len(args) = 3 /\ Len(readLog) = 2
    /\ cliErr # NoError
    /\ Len(writeLog) >= 1 /\ writeLog[1].ok
    /\ files # files0

----------------------------------------------------------------------------
(* cmd/mdwrap: wrapParagraph, wrapBlockquote, wrapToWidth.  Specification  *)
(* SpecWrap: one call of wrapParagraph or wrapBlockquote on the lines      *)
(* transform collects for it, for a width of 0..MaxWidth.                  *)

\* strings.HasPrefix(s, prefix)
HasPrefix(s, prefix) ==
    Len(s) >= Len(prefix) /\ SubSeq(s, 1, Len(prefix)) = prefix

\* strings.HasSuffix(s, suffix)
HasSuffix(s, suffix) ==
    Len(s) >= Len(suffix) /\ SubSeq(s, Len(s) - Len(suffix) + 1, Len(s)) = suffix

\* strings.TrimPrefix(s, prefix)
TrimPrefix(s, prefix) ==
    IF HasPrefix(s, prefix) THEN SubSeq(s, Len(prefix) + 1, Len(s)) ELSE s

\* strings.Join(lines, sep)
RECURSIVE Join(_, _)
Join(lines, sep) ==
    IF lines = <<>> THEN <<>>
    ELSE IF Len(lines) = 1 THEN lines[1]
    ELSE lines[1] \o sep \o Join(Tail(lines), sep)

\* strings.Fields(text): the maximal runs of non-space bytes (word: the run
\* being read)
RECURSIVE FieldsFrom(_, _, _)
FieldsFrom(text, k, word) ==
    IF k > Len(text) THEN (IF word = <<>> THEN <<>> ELSE <<word>>)
    ELSE IF text[k] \in {" ", TAB, NL}
         THEN (IF word = <<>> THEN <<>> ELSE <<word>>) \o FieldsFrom(text, k + 1, <<>>)
         ELSE FieldsFrom(text, k + 1, Append(word, text[k]))

Fields(text) == FieldsFrom(text, 1, <<>>)

\* currentLine.Len()+1+len(word) <= width
Fits(currentLine, word, width) == Len(currentLine) + 1 + Len(word) <= width

\* 'for _, word := range words' of wrapParagraph and of wrapToWidth:
\* [result, currentLine]
RECURSIVE WrapWords(_, _, _, _)
WrapWords(words, k, width, acc) ==
    IF k > Len(words) THEN acc
    ELSE LET word == words[k]
         IN  WrapWords(words, k + 1, width,
                 IF Len(acc.currentLine) = 0
                 THEN [acc EXCEPT !.currentLine = word]
                 ELSE IF Fits(acc.currentLine, word, width)
                 THEN [acc EXCEPT !.currentLine = acc.currentLine \o <<" ">> \o word]
                 ELSE [result |-> Append(acc.result, acc.currentLine),
                       currentLine |-> word])

\* the lines of the words, the last one with suffix appended
WrapFlush(acc, suffix) ==
    IF Len(acc.currentLine) > 0
    THEN Append(acc.result, acc.currentLine \o suffix)
    ELSE acc.result

\* func wrapToWidth(lines []string, width int) []string
wrapToWidth(lines, width) ==
    LET words == Fields(Join(lines, <<" ">>))
    IN  IF Len(words) = 0 THEN <<>>
        ELSE WrapFlush(WrapWords(words, 1, width,
                                 [result |-> <<>>, currentLine |-> <<>>]), <<>>)

\* func wrapParagraph(lines []string) []string, for *wrapWidth = width
wrapParagraph(lines, width) ==
    LET hasHardBreak == Len(lines) > 0 /\ HasSuffix(lines[Len(lines)], <<" ", " ">>)
        words == Fields(Join(lines, <<" ">>))
    IN  IF Len(words) = 0 THEN <<>>
        ELSE WrapFlush(WrapWords(words, 1, width,
                                 [result |-> <<>>, currentLine |-> <<>>]),
                       IF hasHardBreak THEN <<" ", " ">> ELSE <<>>)

QuotePrefix == <<">", " ">>

\* prefix+w for every wrapped line w
Prefixed(wrapped) == [k \in 1..Len(wrapped) |-> QuotePrefix \o wrapped[k]]

\* "Strip the > and optional space"
QuoteContent(line) == TrimPrefix(TrimPrefix(line, <<">">>), <<" ">>)

\* "Check for GFM alert header like [!NOTE]"
IsAlertHeader(content) ==
    /\ HasPrefix(content, <<"[", "!">>)
    /\ \E k \in 1..Len(content) : content[k] = "]"

\* 'for _, line := range lines' of wrapBlockquote and the flush behind it
RECURSIVE QuoteLoop(_, _, _, _, _)
QuoteLoop(lines, k, contentWidth, contentLines, res) ==
    IF k > Len(lines)
    THEN (IF Len(contentLines) > 0
          THEN res \o Prefixed(wrapToWidth(contentLines, contentWidth))
          ELSE res)
    ELSE LET content == QuoteContent(lines[k])
         IN  IF IsAlertHeader(content)
             THEN QuoteLoop(lines, k + 1, contentWidth, <<>>,
                            (IF Len(contentLines) > 0
                             THEN res \o Prefixed(wrapToWidth(contentLines, contentWidth))
                             ELSE res)
                            \o <<QuotePrefix \o content>>)
             ELSE QuoteLoop(lines, k + 1, contentWidth,
                            Append(contentLines, content), res)

\* func wrapBlockquote(lines []string) []string, for *wrapWidth = width
wrapBlockquote(lines, width) ==
    IF Len(lines) = 0 THEN <<>>
    ELSE QuoteLoop(lines, 1, width - Len(QuotePrefix), <<>>, <<>>)

MaxWrapLines == 2
MaxWidth == 6

AlertHeader == <<"[", "!", "N", "]">>                              \* [!N]

\* lines of a paragraph: words of up to three bytes, blanks before, between
\* and behind them
ParaLines ==
    {<<"a">>, <<"b", "b">>, <<"c", "c", "c">>, <<"a", " ", "b", "b">>,
     <<"b", "b", " ", "a", " ", "c", "c", "c">>, <<" ", "a">>,
     <<"a", " ", " ", "b", "b">>, <<"a", " ", " ">>, <<"c", "c", "c", " ", "a", " ", " ">>}

\* what transform hands to wrapParagraph: only the last line of a
\* paragraph can end in two blanks
ParaInputs ==
    {ls \in UNION {[1..k -> ParaLines] : k \in 1..MaxWrapLines} :
        \A k \in 1..(Len(ls) - 1) : ~HasSuffix(ls[k], <<" ", " ">>)}

\* lines of a blockquote: trimmed, each starts with ">"
QuoteLines ==
    {<<">">>, <<">", " ", "a">>, <<">", "b", "b">>,
     <<">", " ", "b", "b", " ", "a", " ", "c", "c", "c">>,
     <<">", " ", "c", "c", "c", " ", "c", "c", "c">>,
     <<">", " ">> \o AlertHeader, <<">", " ">> \o AlertHeader \o <<" ", "a">>,
     <<" ", ">", " ", "a">>, <<">", " ", ">", " ", "a">>}

QuoteInputs == UNION {[1..k -> QuoteLines] : k \in 1..MaxWrapLines}

WrapInit ==
    /\ ExIdle /\ ConvIdle /\ CliIdle
    /\ wrapWidth \in 0..MaxWidth
    /\ \/ wrapKind = "para" /\ wrapLines \in ParaInputs
       \/ wrapKind = "quote" /\ wrapLines \in QuoteInputs
    /\ wrapOut = <<>>
    /\ wrapPc = "start"

\* wrapped := wrapParagraph(paraLines)
WrapPara ==
    /\ wrapPc = "start" /\ wrapKind = "para"
    /\ wrapOut' = wrapParagraph(wrapLines, wrapWidth)
    /\ wrapPc' = "done"
    /\ UNCHANGED <<wrapKind, wrapLines, wrapWidth, exVars, convVars, cliVars>>

\* wrapped := wrapBlockquote(bqLines)
WrapQuote ==
    /\ wrapPc = "start" /\ wrapKind = "quote"
    /\ wrapOut' = wrapBlockquote(wrapLines, wrapWidth)
    /\ wrapPc' = "done"
    /\ UNCHANGED <<wrapKind, wrapLines, wrapWidth, exVars, convVars, cliVars>>

WrapNext == WrapPara \/ WrapQuote

SpecWrap == WrapInit /\ [][WrapNext]_vars

\* the words of the lines, in order
RECURSIVE WordsOf(_)
WordsOf(lines) ==
    IF lines = <<>> THEN <<>> ELSE Fields(Head(lines)) \o WordsOf(Tail(lines))

\* a blockquote line without its markers: the blanks and ">" before its text
RECURSIVE StripMarkers(_)
StripMarkers(line) ==
    IF line # <<>> /\ Head(line) \in {" ", ">"} THEN StripMarkers(Tail(line)) ELSE line

Unquoted(lines) == [k \in 1..Len(lines) |-> StripMarkers(lines[k])]

\* line keeps to the width, or is one word that does not fit
FitsWidth(line, width) == Len(line) <= width \/ Len(Fields(line)) = 1

\* C22: the lines wrapParagraph returns keep to the width unless they are a
\* single word (the last line apart from the two blanks of a preserved hard
\* break), and their words are the words of the paragraph in order; the
\* lines wrapBlockquote returns start with the prefix, keep to the width
\* with the prefix counted unless they hold a single word (an alert header
\* is passed on as it is), and their words, the blockquote markers apart,
\* are the words of the blockquote in order.
C22_Wrapped ==
    wrapPc = "done"
    => IF wrapKind = "para"
       THEN /\ \A k \in 1..Len(wrapOut) :
                  \/ FitsWidth(wrapOut[k], wrapWidth)
                  \/ /\ k = Len(wrapOut)
                     /\ HasSuffix(wrapLines[Len(wrapLines)], <<" ", " ">>)
                     /\ HasSuffix(wrapOut[k], <<" ", " ">>)
                     /\ FitsWidth(SubSeq(wrapOut[k], 1, Len(wrapOut[k]) - 2), wrapWidth)
            /\ WordsOf(wrapOut) = WordsOf(wrapLines)
       ELSE /\ \A k \in 1..Len(wrapOut) :
                  /\ HasPrefix(wrapOut[k], QuotePrefix)
                  /\ \/ Len(wrapOut[k]) <= wrapWidth
                     \/ Len(Fields(wrapOut[k])) = 2
                     \/ \E j \in 1..Len(wrapLines) :
                           /\ IsAlertHeader(StripMarkers(wrapLines[j]))
                           /\ StripMarkers(wrapOut[k]) = StripMarkers(wrapLines[j])
            /\ WordsOf(Unquoted(wrapOut)) = WordsOf(Unquoted(wrapLines))

=============================================================================
